---- MODULE Spec2Model ----
(***************************************************************************)
(* Model of mddiff: the Markdown normalizer (normalize.py), the line       *)
(* differ and its context windowing (diff.py) and the inline differ        *)
(* (inline.py).                                                            *)
(*                                                                         *)
(* Text is a sequence of one-character strings.  A Python Optional value   *)
(* is a sequence of length 0 (None) or 1 (the value).  Indices into lines  *)
(* and opcodes are 0-based and half-open exactly as in the Python source;  *)
(* element k of a Python list is element k + 1 of the TLA+ sequence.       *)
(* Ratios are compared as integers: a threshold t is held in hundredths.   *)
(***************************************************************************)
EXTENDS Integers, Sequences, FiniteSets, TLC

VARIABLES
    pc,            \* position in the pipeline under analysis
    left,          \* left NormalizedDocument.lines
    right,         \* right NormalizedDocument.lines
    inline_config, \* InlineDiffConfig or None
    context,       \* context radius or None
    lines,         \* the flat DiffLine list built from the opcodes
    result,        \* DiffResult.lines (after windowing)
    raised,        \* the exception that escaped, "" when none
    source,        \* the text given to normalize
    doc,           \* normalize(source), None before the call
    redoc,         \* normalize(doc.text), None before the call
    inline_left,     \* the left line given to diff_inline and _should_inline
    inline_right,    \* the right line given to them
    inline_segments, \* diff_inline of the two lines, None before the call
    inline_eligible, \* _should_inline of the two lines, None before the call
    frames           \* the call stack of _normalize_blocks, innermost call last

diffVars == <<left, right, inline_config, context, lines, result, raised>>
normVars == <<source, doc, redoc>>
inlineVars == <<inline_left, inline_right, inline_segments, inline_eligible>>
scanVars == <<frames>>
vars == <<pc, left, right, inline_config, context, lines, result, raised,
         source, doc, redoc,
         inline_left, inline_right, inline_segments, inline_eligible, frames>>

(***************************************************************************)
(* Bounds of the model.                                                    *)
(***************************************************************************)
MaxDocLines == 3
MaxWinLines == 5
MaxContext == 2
MaxSourceParts == 4
MaxBodyLen == 3
MaxFenceLines == 4
MaxScanParts == 5
MaxRawParts == 4
MaxWordsLen == 5
MaxAccentLines == 2

(***************************************************************************)
(* Generic helpers.                                                        *)
(***************************************************************************)
None == <<>>
Some(x) == <<x>>

Min2(x, y) == IF x <= y THEN x ELSE y
Max2(x, y) == IF x >= y THEN x ELSE y

SetMin(S) == CHOOSE x \in S : \A y \in S : x <= y
SetMax(S) == CHOOSE x \in S : \A y \in S : x >= y

\* Python slice s[lo:hi] with 0 <= lo, hi possibly beyond the end.
Slice(s, lo, hi) ==
    LET h == Min2(hi, Len(s))
    IN  IF lo >= h THEN <<>> ELSE SubSeq(s, lo + 1, h)

RECURSIVE Concat(_)
Concat(ss) == IF ss = <<>> THEN <<>> ELSE Head(ss) \o Concat(Tail(ss))

\* All sequences over S of length at most n.
SeqsUpTo(S, n) == UNION {[1..k -> S] : k \in 0..n}

(***************************************************************************)
(* Character classes used by str.strip, \s and \w.                          *)
(***************************************************************************)
WhitespaceChars == {" ", "\t", "\n", "\r", "\f"}
AsciiLetters ==
    {"a","b","c","d","e","f","g","h","i","j","k","l","m",
     "n","o","p","q","r","s","t","u","v","w","x","y","z",
     "A","B","C","D","E","F","G","H","I","J","K","L","M",
     "N","O","P","Q","R","S","T","U","V","W","X","Y","Z"}
AsciiDigits == {"0","1","2","3","4","5","6","7","8","9"}
AsciiWordChars == AsciiLetters \cup AsciiDigits \cup {"_"}
\* A word character outside ASCII (matched by \w, not by [A-Za-z0-9_]).
NonAsciiWordChars == {"U+00E9"}
WordChars == AsciiWordChars \cup NonAsciiWordChars

IsSpace(c) == c \in WhitespaceChars
IsWord(c) == c \in WordChars

\* str(n) for n >= 0
RECURSIVE IntStr(_)
IntStr(n) ==
    LET d == <<"0","1","2","3","4","5","6","7","8","9">>
    IN  IF n < 10 THEN <<d[n + 1]>> ELSE IntStr(n \div 10) \o <<d[(n % 10) + 1]>>

(***************************************************************************)
(* difflib.SequenceMatcher(None, a, b, autojunk=False): no element is junk. *)
(***************************************************************************)
\* Length of the common run a[i:] / b[j:] inside a[:ahi], b[:bhi].
RECURSIVE CommonRun(_, _, _, _, _, _)
CommonRun(a, b, i, j, ahi, bhi) ==
    IF i < ahi /\ j < bhi /\ a[i + 1] = b[j + 1]
    THEN 1 + CommonRun(a, b, i + 1, j + 1, ahi, bhi)
    ELSE 0

\* The longest block a[i:i+k] = b[j:j+k] in a[alo:ahi], b[blo:bhi]; of all
\* longest blocks the one that starts earliest in a and, of those, earliest
\* in b; (alo, blo, 0) when there is none.
find_longest_match(a, b, alo, ahi, blo, bhi) ==
    LET cand == {p \in (alo..(ahi - 1)) \X (blo..(bhi - 1)) : a[p[1] + 1] = b[p[2] + 1]}
        size(p) == CommonRun(a, b, p[1], p[2], ahi, bhi)
    IN  IF cand = {} THEN <<alo, blo, 0>>
        ELSE LET best == SetMax({size(p) : p \in cand})
                 bi == SetMin({p[1] : p \in {q \in cand : size(q) = best}})
                 bj == SetMin({p[2] : p \in {q \in cand : size(q) = best /\ q[1] = bi}})
             IN  <<bi, bj, best>>

\* The blocks found by recursing to the left and to the right of the longest
\* match, in sorted order.
RECURSIVE MatchingBlocksIn(_, _, _, _, _, _)
MatchingBlocksIn(a, b, alo, ahi, blo, bhi) ==
    LET m == find_longest_match(a, b, alo, ahi, blo, bhi)
        i == m[1]
        j == m[2]
        k == m[3]
    IN  IF k = 0 THEN <<>>
        ELSE (IF alo < i /\ blo < j THEN MatchingBlocksIn(a, b, alo, i, blo, j) ELSE <<>>)
             \o <<m>>
             \o (IF i + k < ahi /\ j + k < bhi
                 THEN MatchingBlocksIn(a, b, i + k, ahi, j + k, bhi) ELSE <<>>)

\* Adjacent blocks are merged; st = <<non_adjacent, i1, j1, k1>>.
RECURSIVE CollapseAdjacent(_, _)
CollapseAdjacent(blocks, st) ==
    IF blocks = <<>>
    THEN IF st[4] > 0 THEN Append(st[1], <<st[2], st[3], st[4]>>) ELSE st[1]
    ELSE LET m == Head(blocks)
         IN  IF st[2] + st[4] = m[1] /\ st[3] + st[4] = m[2]
             THEN CollapseAdjacent(Tail(blocks), <<st[1], st[2], st[3], st[4] + m[3]>>)
             ELSE CollapseAdjacent(Tail(blocks),
                      <<IF st[4] > 0 THEN Append(st[1], <<st[2], st[3], st[4]>>) ELSE st[1],
                        m[1], m[2], m[3]>>)

\* Mutant: only the longest match is reported, without recursing around it.
get_matching_blocks_longest_only(a, b) ==
    LET m == find_longest_match(a, b, 0, Len(a), 0, Len(b))
    IN  Append(IF m[3] > 0 THEN <<m>> ELSE <<>>, <<Len(a), Len(b), 0>>)

get_matching_blocks(a, b) ==
    Append(CollapseAdjacent(MatchingBlocksIn(a, b, 0, Len(a), 0, Len(b)), <<<<>>, 0, 0, 0>>),
           <<Len(a), Len(b), 0>>)

\* Opcodes <<tag, i1, i2, j1, j2>> from the matching blocks, i and j being
\* the ends of the previous block.
RECURSIVE OpcodesFrom(_, _, _)
OpcodesFrom(blocks, i, j) ==
    IF blocks = <<>> THEN <<>>
    ELSE LET m == Head(blocks)
             ai == m[1]
             bj == m[2]
             size == m[3]
             tag == IF i < ai /\ j < bj THEN "replace"
                    ELSE IF i < ai THEN "delete"
                    ELSE IF j < bj THEN "insert"
                    ELSE ""
         IN  (IF tag # "" THEN <<<<tag, i, ai, j, bj>>>> ELSE <<>>)
             \o (IF size > 0 THEN <<<<"equal", ai, ai + size, bj, bj + size>>>> ELSE <<>>)
             \o OpcodesFrom(Tail(blocks), ai + size, bj + size)

get_opcodes(a, b) == OpcodesFrom(get_matching_blocks(a, b), 0, 0)

\* Number of matched elements (the numerator of ratio() is twice this).
RECURSIVE SumSizes(_)
SumSizes(blocks) == IF blocks = <<>> THEN 0 ELSE Head(blocks)[3] + SumSizes(Tail(blocks))

ratio_matches(a, b) == SumSizes(get_matching_blocks(a, b))

Count(s, c) == Cardinality({k \in 1..Len(s) : s[k] = c})

RECURSIVE SumMinCounts(_, _, _)
SumMinCounts(a, b, cs) ==
    IF cs = {} THEN 0
    ELSE LET c == CHOOSE x \in cs : TRUE
         IN  Min2(Count(a, c), Count(b, c)) + SumMinCounts(a, b, cs \ {c})

\* Mutant: a common element counts once, however often it occurs.
quick_ratio_matches_distinct(a, b) ==
    Cardinality({a[k] : k \in 1..Len(a)} \cap {b[k] : k \in 1..Len(b)})

\* Size of the multiset intersection of the elements (quick_ratio numerator / 2).
quick_ratio_matches(a, b) == SumMinCounts(a, b, {a[k] : k \in 1..Len(a)})

real_quick_ratio_matches(a, b) == Min2(Len(a), Len(b))

\* _calculate_ratio(matches, length) < t / 100, the ratio being 1.0 when length = 0.
RatioBelow(matches, length, t) ==
    IF length = 0 THEN 100 < t ELSE 200 * matches < t * length

(***************************************************************************)
(* inline.py                                                               *)
(***************************************************************************)
UNCHANGED_ == "unchanged"
INSERTED == "inserted"
DELETED == "deleted"
EDITED == "edited"
SKIPPED == "skipped"

_segment(kind, l, r) == [kind |-> kind, left_text |-> l, right_text |-> r]

\* End (exclusive, 0-based) of the maximal run of characters of class cls
\* that starts at position p.
RECURSIVE RunEnd(_, _, _)
RunEnd(text, p, cls) ==
    IF p < Len(text) /\ text[p + 1] \in cls THEN RunEnd(text, p + 1, cls) ELSE p

\* _TOKEN_RE.findall from position p: \s+ | [A-Za-z0-9_]+ | [^\w\s]; a
\* character that starts none of the three alternatives is skipped.
RECURSIVE TokensFrom(_, _)
TokensFrom(text, p) ==
    IF p >= Len(text) THEN <<>>
    ELSE LET c == text[p + 1]
         IN  IF IsSpace(c)
             THEN <<Slice(text, p, RunEnd(text, p, WhitespaceChars))>>
                  \o TokensFrom(text, RunEnd(text, p, WhitespaceChars))
             ELSE IF c \in AsciiWordChars
             THEN <<Slice(text, p, RunEnd(text, p, AsciiWordChars))>>
                  \o TokensFrom(text, RunEnd(text, p, AsciiWordChars))
             ELSE IF ~IsWord(c)
             THEN <<<<c>>>> \o TokensFrom(text, p + 1)
             ELSE TokensFrom(text, p + 1)

_tokenize(text) == IF text = <<>> THEN <<>> ELSE TokensFrom(text, 0)

\* <<body, had_newline>>
_strip_trailing_newline(value) ==
    IF value # <<>> /\ value[Len(value)] = "\n"
    THEN <<Slice(value, 0, Len(value) - 1), TRUE>>
    ELSE <<value, FALSE>>

\* The segments materialized from the token opcodes.
RECURSIVE OpcodeSegments(_, _, _)
OpcodeSegments(ops, left_tokens, right_tokens) ==
    IF ops = <<>> THEN <<>>
    ELSE LET op == Head(ops)
             left_text == Concat(Slice(left_tokens, op[2], op[3]))
             right_text == Concat(Slice(right_tokens, op[4], op[5]))
             seg == IF op[1] = "equal"
                    THEN IF left_text # <<>>
                         THEN <<_segment(UNCHANGED_, left_text, right_text)>> ELSE <<>>
                    ELSE IF op[1] = "delete"
                    THEN IF left_text # <<>>
                         THEN <<_segment(DELETED, left_text, <<>>)>> ELSE <<>>
                    ELSE IF op[1] = "insert"
                    THEN IF right_text # <<>>
                         THEN <<_segment(INSERTED, <<>>, right_text)>> ELSE <<>>
                    ELSE IF left_text # <<>> \/ right_text # <<>>
                         THEN <<_segment(EDITED, left_text, right_text)>> ELSE <<>>
         IN  seg \o OpcodeSegments(Tail(ops), left_tokens, right_tokens)

\* coalesced is the list built so far.
RECURSIVE CoalesceInto(_, _)
CoalesceInto(coalesced, segments) ==
    IF segments = <<>> THEN coalesced
    ELSE LET segment == Head(segments)
             previous == coalesced[Len(coalesced)]
         IN  IF segment.kind = previous.kind
             THEN CoalesceInto(
                      [coalesced EXCEPT ![Len(coalesced)] =
                          _segment(segment.kind,
                                   previous.left_text \o segment.left_text,
                                   previous.right_text \o segment.right_text)],
                      Tail(segments))
             ELSE CoalesceInto(Append(coalesced, segment), Tail(segments))

\* Mutant: the segments are returned without joining any of them.
_coalesce_segments_never(segments) == segments

_coalesce_segments(segments) ==
    IF segments = <<>> THEN <<>> ELSE CoalesceInto(<<Head(segments)>>, Tail(segments))

\* text.strip() == ""
IsAllSpace(text) == \A k \in 1..Len(text) : IsSpace(text[k])

_is_mergeable_whitespace(segment) ==
    LET text == IF segment.left_text # <<>> THEN segment.left_text ELSE segment.right_text
    IN  /\ text # <<>>
        /\ \A k \in 1..Len(text) : text[k] # "\n"
        /\ IsAllSpace(text)

_is_change_segment(segment) == segment.kind \in {EDITED, INSERTED, DELETED}

\* Mutant: the combined segment keeps the kind of its left neighbour.
_combine_segments_left_kind(left_segment, whitespace, right_segment) ==
    [kind |-> left_segment.kind,
     left_text |-> left_segment.left_text \o whitespace.left_text \o right_segment.left_text,
     right_text |-> left_segment.right_text \o whitespace.right_text \o right_segment.right_text]

_combine_segments(left_segment, whitespace, right_segment) ==
    LET left_text == left_segment.left_text \o whitespace.left_text \o right_segment.left_text
        right_text == left_segment.right_text \o whitespace.right_text \o right_segment.right_text
        kind == IF left_text # <<>> /\ right_text # <<>> THEN EDITED
                ELSE IF left_text # <<>> THEN DELETED
                ELSE INSERTED
    IN  [kind |-> kind, left_text |-> left_text, right_text |-> right_text]

\* The while loop of _merge_whitespace_bridges; i is the 0-based index.
RECURSIVE MergeBridgesFrom(_, _, _)
MergeBridgesFrom(segments, i, res) ==
    IF i >= Len(segments) THEN res
    ELSE LET segment == segments[i + 1]
         IN  IF /\ 0 < i
                /\ i < Len(segments) - 1
                /\ segment.kind = UNCHANGED_
                /\ _is_mergeable_whitespace(segment)
                /\ _is_change_segment(res[Len(res)])
                /\ _is_change_segment(segments[i + 2])
             THEN MergeBridgesFrom(segments, i + 2,
                      Append(Slice(res, 0, Len(res) - 1),
                             _combine_segments(res[Len(res)], segment, segments[i + 2])))
             ELSE MergeBridgesFrom(segments, i + 1, Append(res, segment))

\* Mutant: the segments are returned as they are.
_merge_whitespace_bridges_never(segments) == segments

_merge_whitespace_bridges(segments) ==
    IF Len(segments) < 3 THEN segments ELSE MergeBridgesFrom(segments, 0, <<>>)

\* The segments of diff_inline before the whitespace bridges are merged:
\* one per opcode, the newline segment, coalesced.
CoalescedSegments(l, r) ==
    LET ls == _strip_trailing_newline(l)
        rs == _strip_trailing_newline(r)
        left_tokens == _tokenize(ls[1])
        right_tokens == _tokenize(rs[1])
        segments == OpcodeSegments(get_opcodes(left_tokens, right_tokens),
                                   left_tokens, right_tokens)
        newline_segment ==
            _segment(IF ls[2] /\ rs[2] THEN UNCHANGED_
                     ELSE IF ls[2] THEN DELETED ELSE INSERTED,
                     IF ls[2] THEN <<"\n">> ELSE <<>>,
                     IF rs[2] THEN <<"\n">> ELSE <<>>)
        with_newline == IF ls[2] \/ rs[2] THEN Append(segments, newline_segment) ELSE segments
    IN  _coalesce_segments(with_newline)

\* Mutant: no segment is appended for the line ending.
diff_inline_without_newline(l, r) ==
    LET left_tokens == _tokenize(_strip_trailing_newline(l)[1])
        right_tokens == _tokenize(_strip_trailing_newline(r)[1])
    IN  _merge_whitespace_bridges(_coalesce_segments(
            OpcodeSegments(get_opcodes(left_tokens, right_tokens),
                           left_tokens, right_tokens)))

diff_inline(l, r) == _merge_whitespace_bridges(CoalescedSegments(l, r))

(***************************************************************************)
(* models.py and diff.py                                                   *)
(***************************************************************************)
DiffLine(kind, left_lineno, right_lineno, left_text, right_text, segments) ==
    [kind |-> kind, left_lineno |-> left_lineno, right_lineno |-> right_lineno,
     left_text |-> left_text, right_text |-> right_text, segments |-> segments]

\* InlineDiffConfig(), thresholds in hundredths.
InlineDiffConfig ==
    [min_real_quick_ratio |-> 20, min_quick_ratio |-> 30, min_ratio |-> 35]

\* Mutant: a result with any line at all has changes.
has_changes_nonempty(ls) == ls # <<>>

\* DiffResult.has_changes
has_changes(ls) == \E k \in 1..Len(ls) : ls[k].kind # UNCHANGED_

\* value.rstrip("\n")
RECURSIVE RStripNewlines(_)
RStripNewlines(value) ==
    IF value # <<>> /\ value[Len(value)] = "\n"
    THEN RStripNewlines(Slice(value, 0, Len(value) - 1))
    ELSE value

\* Mutant: the last stage compares the true ratio with min_quick_ratio.
_should_inline_wrong_threshold(left_line, right_line, cfg) ==
    LET left_body == RStripNewlines(left_line)
        right_body == RStripNewlines(right_line)
        config == IF cfg = None THEN InlineDiffConfig ELSE cfg[1]
        length == Len(left_body) + Len(right_body)
    IN  IF left_body = <<>> /\ right_body = <<>> THEN TRUE
        ELSE IF RatioBelow(real_quick_ratio_matches(left_body, right_body), length,
                           config.min_real_quick_ratio) THEN FALSE
        ELSE IF RatioBelow(quick_ratio_matches(left_body, right_body), length,
                           config.min_quick_ratio) THEN FALSE
        ELSE ~RatioBelow(ratio_matches(left_body, right_body), length, config.min_quick_ratio)

_should_inline(left_line, right_line, cfg) ==
    LET left_body == RStripNewlines(left_line)
        right_body == RStripNewlines(right_line)
        config == IF cfg = None THEN InlineDiffConfig ELSE cfg[1]
        length == Len(left_body) + Len(right_body)
    IN  IF left_body = <<>> /\ right_body = <<>> THEN TRUE
        ELSE IF RatioBelow(real_quick_ratio_matches(left_body, right_body), length,
                           config.min_real_quick_ratio) THEN FALSE
        ELSE IF RatioBelow(quick_ratio_matches(left_body, right_body), length,
                           config.min_quick_ratio) THEN FALSE
        ELSE ~RatioBelow(ratio_matches(left_body, right_body), length, config.min_ratio)

\* Mutant: the right line number is left 0-based.
_build_unchanged_lines_zero_based(l, r, i1, i2, j1) ==
    [offset \in 1..(i2 - i1) |->
        DiffLine(UNCHANGED_, Some(i1 + offset), Some(j1 + offset - 1),
                 Some(l[i1 + offset]), Some(r[j1 + offset]), <<>>)]

_build_unchanged_lines(l, r, i1, i2, j1) ==
    [offset \in 1..(i2 - i1) |->
        DiffLine(UNCHANGED_, Some(i1 + offset), Some(j1 + offset),
                 Some(l[i1 + offset]), Some(r[j1 + offset]), <<>>)]

\* Mutant: the left line number is left 0-based.
_build_deleted_lines_zero_based(l, i1, i2) ==
    [offset \in 1..(i2 - i1) |->
        DiffLine(DELETED, Some(i1 + offset - 1), None, Some(l[i1 + offset]), None, <<>>)]

_build_deleted_lines(l, i1, i2) ==
    [offset \in 1..(i2 - i1) |->
        DiffLine(DELETED, Some(i1 + offset), None, Some(l[i1 + offset]), None, <<>>)]

\* Mutant: an inserted line is given a left line number.
_build_inserted_lines_numbered(r, j1, j2) ==
    [offset \in 1..(j2 - j1) |->
        DiffLine(INSERTED, Some(j1 + offset), Some(j1 + offset), None,
                 Some(r[j1 + offset]), <<>>)]

_build_inserted_lines(r, j1, j2) ==
    [offset \in 1..(j2 - j1) |->
        DiffLine(INSERTED, None, Some(j1 + offset), None, Some(r[j1 + offset]), <<>>)]

\* The first loop of _build_replaced_lines, from pair number offset on.
RECURSIVE ReplacedPairs(_, _, _, _, _, _, _)
ReplacedPairs(l, r, i1, j1, offset, pair_count, cfg) ==
    IF offset >= pair_count THEN <<>>
    ELSE LET left_idx == i1 + offset
             right_idx == j1 + offset
             left_line == l[left_idx + 1]
             right_line == r[right_idx + 1]
         IN  (IF ~_should_inline(left_line, right_line, cfg)
              THEN <<DiffLine(DELETED, Some(left_idx + 1), None, Some(left_line), None, <<>>),
                     DiffLine(INSERTED, None, Some(right_idx + 1), None, Some(right_line), <<>>)>>
              ELSE <<DiffLine(EDITED, Some(left_idx + 1), Some(right_idx + 1),
                              Some(left_line), Some(right_line),
                              diff_inline(left_line, right_line))>>)
             \o ReplacedPairs(l, r, i1, j1, offset + 1, pair_count, cfg)

\* Mutant: the leftover loops start one line late.
_build_replaced_lines_skip(l, r, i1, i2, j1, j2, cfg) ==
    LET pair_count == Min2(i2 - i1, j2 - j1)
    IN  ReplacedPairs(l, r, i1, j1, 0, pair_count, cfg)
        \o _build_deleted_lines(l, i1 + pair_count + 1, i2)
        \o _build_inserted_lines(r, j1 + pair_count + 1, j2)

_build_replaced_lines(l, r, i1, i2, j1, j2, cfg) ==
    LET pair_count == Min2(i2 - i1, j2 - j1)
    IN  ReplacedPairs(l, r, i1, j1, 0, pair_count, cfg)
        \o _build_deleted_lines(l, i1 + pair_count, i2)
        \o _build_inserted_lines(r, j1 + pair_count, j2)

\* The loop of diff_normalized over the opcodes.
RECURSIVE ExpandOpcodes(_, _, _, _)
ExpandOpcodes(ops, l, r, cfg) ==
    IF ops = <<>> THEN <<>>
    ELSE LET op == Head(ops)
         IN  (IF op[1] = "equal" THEN _build_unchanged_lines(l, r, op[2], op[3], op[4])
              ELSE IF op[1] = "delete" THEN _build_deleted_lines(l, op[2], op[3])
              ELSE IF op[1] = "insert" THEN _build_inserted_lines(r, op[4], op[5])
              ELSE _build_replaced_lines(l, r, op[2], op[3], op[4], op[5], cfg))
             \o ExpandOpcodes(Tail(ops), l, r, cfg)

\* [line.left_lineno for line in block if line.left_lineno is not None]
RECURSIVE LeftNumbers(_)
LeftNumbers(block) ==
    IF block = <<>> THEN <<>>
    ELSE Head(block).left_lineno \o LeftNumbers(Tail(block))

RECURSIVE RightNumbers(_)
RightNumbers(block) ==
    IF block = <<>> THEN <<>>
    ELSE Head(block).right_lineno \o RightNumbers(Tail(block))

\* f"@@ -{left_start},{left_len} +{right_start},{right_len} @@\n"
HeaderText(left_start, left_len, right_start, right_len) ==
    <<"@", "@", " ", "-">> \o IntStr(left_start) \o <<",">> \o IntStr(left_len)
    \o <<" ", "+">> \o IntStr(right_start) \o <<",">> \o IntStr(right_len)
    \o <<" ", "@", "@", "\n">>

\* Mutant: the fallback start is the previous last line number itself.
_make_hunk_header_no_increment(ls, start, end, prev_left, prev_right) ==
    LET block == Slice(ls, start, end + 1)
        left_numbers == LeftNumbers(block)
        right_numbers == RightNumbers(block)
        left_start == IF left_numbers # <<>> THEN left_numbers[1] ELSE prev_left
        right_start == IF right_numbers # <<>> THEN right_numbers[1] ELSE prev_right
        header_text == HeaderText(left_start, Len(left_numbers), right_start, Len(right_numbers))
    IN  DiffLine(SKIPPED, Some(left_start), Some(right_start),
                 Some(header_text), Some(header_text), <<>>)

\* Mutant: the start of a range is the last line number of the block.
_make_hunk_header_last_number(ls, start, end, prev_left, prev_right) ==
    LET block == Slice(ls, start, end + 1)
        left_numbers == LeftNumbers(block)
        right_numbers == RightNumbers(block)
        left_start == IF left_numbers # <<>> THEN left_numbers[Len(left_numbers)]
                      ELSE prev_left + 1
        right_start == IF right_numbers # <<>> THEN right_numbers[Len(right_numbers)]
                       ELSE prev_right + 1
        header_text == HeaderText(left_start, Len(left_numbers), right_start, Len(right_numbers))
    IN  DiffLine(SKIPPED, Some(left_start), Some(right_start),
                 Some(header_text), Some(header_text), <<>>)

\* start and end are the 0-based, inclusive block bounds.
_make_hunk_header(ls, start, end, prev_left, prev_right) ==
    LET block == Slice(ls, start, end + 1)
        left_numbers == LeftNumbers(block)
        right_numbers == RightNumbers(block)
        left_start == IF left_numbers # <<>> THEN left_numbers[1] ELSE prev_left + 1
        right_start == IF right_numbers # <<>> THEN right_numbers[1] ELSE prev_right + 1
        header_text == HeaderText(left_start, Len(left_numbers), right_start, Len(right_numbers))
    IN  DiffLine(SKIPPED, Some(left_start), Some(right_start),
                 Some(header_text), Some(header_text), <<>>)

\* Mutant: the window after a change is one position short.
Keep_short_window(ls, ctx, j) ==
    \E idx \in 0..(Len(ls) - 1) :
        /\ ls[idx + 1].kind # UNCHANGED_
        /\ \/ j = idx
           \/ /\ ctx > 0
              /\ Max2(0, idx - ctx) <= j
              /\ j < Min2(Len(ls), idx + ctx)
              /\ ls[j + 1].kind = UNCHANGED_

\* keep[j] of _apply_context for the 0-based position j.
Keep(ls, ctx, j) ==
    \E idx \in 0..(Len(ls) - 1) :
        /\ ls[idx + 1].kind # UNCHANGED_
        /\ \/ j = idx
           \/ /\ ctx > 0
              /\ Max2(0, idx - ctx) <= j
              /\ j < Min2(Len(ls), idx + ctx + 1)
              /\ ls[j + 1].kind = UNCHANGED_

\* Mutant: a kept position always extends the open run.
RECURSIVE BlocksFrom_never_split(_, _, _, _, _)
BlocksFrom_never_split(ls, ctx, idx, current_start, current_end) ==
    IF idx >= Len(ls) THEN <<<<current_start, current_end>>>>
    ELSE IF ~Keep(ls, ctx, idx)
    THEN BlocksFrom_never_split(ls, ctx, idx + 1, current_start, current_end)
    ELSE BlocksFrom_never_split(ls, ctx, idx + 1, current_start, idx)

\* The (start, end) pairs of the maximal runs of kept positions, scanning
\* from position idx with the run (current_start, current_end) open.
RECURSIVE BlocksFrom(_, _, _, _, _)
BlocksFrom(ls, ctx, idx, current_start, current_end) ==
    IF idx >= Len(ls) THEN <<<<current_start, current_end>>>>
    ELSE IF ~Keep(ls, ctx, idx) THEN BlocksFrom(ls, ctx, idx + 1, current_start, current_end)
    ELSE IF idx = current_end + 1 THEN BlocksFrom(ls, ctx, idx + 1, current_start, idx)
    ELSE <<<<current_start, current_end>>>> \o BlocksFrom(ls, ctx, idx + 1, idx, idx)

\* The loop over the blocks: header, block lines, update of prev_left/right.
RECURSIVE EmitBlocks(_, _, _, _)
EmitBlocks(ls, blocks, prev_left, prev_right) ==
    IF blocks = <<>> THEN <<>>
    ELSE LET start == Head(blocks)[1]
             end == Head(blocks)[2]
             header == _make_hunk_header(ls, start, end, prev_left, prev_right)
             block_lines == Slice(ls, start, end + 1)
             left_candidates == LeftNumbers(block_lines)
             right_candidates == RightNumbers(block_lines)
         IN  <<header>> \o block_lines
             \o EmitBlocks(ls, Tail(blocks),
                    IF left_candidates # <<>>
                    THEN left_candidates[Len(left_candidates)] ELSE prev_left,
                    IF right_candidates # <<>>
                    THEN right_candidates[Len(right_candidates)] ELSE prev_right)

\* What a call produces: a returned value, or the exception it raised.
Return(v) == [raised |-> "", value |-> v]
Raise(e) == [raised |-> e, value |-> <<>>]

\* Mutant: the empty list is answered before the context is validated.
_apply_context_empty_first(ls, ctx) ==
    IF ctx = None THEN Return(ls)
    ELSE IF ls = <<>> THEN Return(<<>>)
    ELSE IF ctx[1] < 0 THEN Raise("ValueError")
    ELSE LET kept_indices == {j \in 0..(Len(ls) - 1) : Keep(ls, ctx[1], j)}
         IN  IF kept_indices = {} THEN Return(<<>>)
             ELSE LET first == SetMin(kept_indices)
                  IN  Return(EmitBlocks(ls, BlocksFrom(ls, ctx[1], first + 1, first, first),
                                        0, 0))

\* Mutant: a list without a change is returned whole.
_apply_context_keep_all(ls, ctx) ==
    IF ctx = None THEN Return(ls)
    ELSE IF ctx[1] < 0 THEN Raise("ValueError")
    ELSE IF ls = <<>> THEN Return(<<>>)
    ELSE LET kept_indices == {j \in 0..(Len(ls) - 1) : Keep(ls, ctx[1], j)}
         IN  IF kept_indices = {} THEN Return(ls)
             ELSE LET first == SetMin(kept_indices)
                  IN  Return(EmitBlocks(ls, BlocksFrom(ls, ctx[1], first + 1, first, first),
                                        0, 0))

_apply_context(ls, ctx) ==
    IF ctx = None THEN Return(ls)
    ELSE IF ctx[1] < 0 THEN Raise("ValueError")
    ELSE IF ls = <<>> THEN Return(<<>>)
    ELSE LET kept_indices == {j \in 0..(Len(ls) - 1) : Keep(ls, ctx[1], j)}
         IN  IF kept_indices = {} THEN Return(<<>>)
             ELSE LET first == SetMin(kept_indices)
                  IN  Return(EmitBlocks(ls, BlocksFrom(ls, ctx[1], first + 1, first, first),
                                        0, 0))

(***************************************************************************)
(* normalize.py: string helpers.                                           *)
(***************************************************************************)
\* The line boundaries of str.splitlines.
LineBreakChars == {"\n", "\r", "\f"}

\* The byte order mark U+FEFF.
BOM == "U+FEFF"

\* The backtick U+0060, which a string of this language cannot hold.
Backtick == "U+0060"

RECURSIVE LStrip(_)
LStrip(s) == IF s # <<>> /\ IsSpace(Head(s)) THEN LStrip(Tail(s)) ELSE s

RECURSIVE RStrip(_)
RStrip(s) ==
    IF s # <<>> /\ IsSpace(s[Len(s)]) THEN RStrip(Slice(s, 0, Len(s) - 1)) ELSE s

Strip(s) == LStrip(RStrip(s))

StartsWith(s, prefix) ==
    Len(s) >= Len(prefix) /\ Slice(s, 0, Len(prefix)) = prefix

EndsWith(s, suffix) ==
    Len(s) >= Len(suffix) /\ Slice(s, Len(s) - Len(suffix), Len(s)) = suffix

\* sep.join(parts)
RECURSIVE JoinWith(_, _)
JoinWith(parts, sep) ==
    IF parts = <<>> THEN <<>>
    ELSE IF Len(parts) = 1 THEN parts[1]
    ELSE parts[1] \o sep \o JoinWith(Tail(parts), sep)

\* text.split(c) for a single character c: the pieces between the separators.
RECURSIVE SplitChar(_, _, _)
SplitChar(text, c, piece) ==
    IF text = <<>> THEN <<piece>>
    ELSE IF Head(text) = c THEN <<piece>> \o SplitChar(Tail(text), c, <<>>)
    ELSE SplitChar(Tail(text), c, Append(piece, Head(text)))

\* text.splitlines(keepends): "\r\n" is one boundary; no empty last line.
RECURSIVE SplitLinesFrom(_, _, _)
SplitLinesFrom(text, keepends, piece) ==
    IF text = <<>> THEN (IF piece = <<>> THEN <<>> ELSE <<piece>>)
    ELSE IF Head(text) \in LineBreakChars
    THEN LET crlf == Head(text) = "\r" /\ Len(text) >= 2 /\ text[2] = "\n"
             ending == IF crlf THEN <<"\r", "\n">> ELSE <<Head(text)>>
             rest == IF crlf THEN Tail(Tail(text)) ELSE Tail(text)
         IN  <<IF keepends THEN piece \o ending ELSE piece>>
             \o SplitLinesFrom(rest, keepends, <<>>)
    ELSE SplitLinesFrom(Tail(text), keepends, Append(piece, Head(text)))

SplitLines(text) == SplitLinesFrom(text, FALSE, <<>>)
SplitLinesKeepEnds(text) == SplitLinesFrom(text, TRUE, <<>>)

\* text.replace(old, new), old not empty
RECURSIVE Replace(_, _, _)
Replace(text, old, new) ==
    IF Len(text) < Len(old) THEN text
    ELSE IF StartsWith(text, old)
    THEN new \o Replace(Slice(text, Len(old), Len(text)), old, new)
    ELSE <<Head(text)>> \o Replace(Tail(text), old, new)

\* Length of the run of the character c at the start of s.
RECURSIVE RunLength(_, _)
RunLength(s, c) == IF s # <<>> /\ Head(s) = c THEN 1 + RunLength(Tail(s), c) ELSE 0

\* Length of the run of characters of cls at the start of s.
RECURSIVE ClassRunLength(_, _)
ClassRunLength(s, cls) ==
    IF s # <<>> /\ Head(s) \in cls THEN 1 + ClassRunLength(Tail(s), cls) ELSE 0

Repeat(c, n) == [k \in 1..n |-> c]

(***************************************************************************)
(* normalize.py: the steps around the block scan.                          *)
(***************************************************************************)
\* _coerce_text for a str value
_coerce_text(value) == value

_normalize_line_endings(text) == Replace(Replace(text, <<"\r", "\n">>, <<"\n">>), <<"\r">>, <<"\n">>)

\* text.lstrip of the byte order mark
RECURSIVE _strip_bom(_)
_strip_bom(text) == IF text # <<>> /\ Head(text) = BOM THEN _strip_bom(Tail(text)) ELSE text

IsBlank(line) == Strip(line) = <<>>

RECURSIVE DropLeadingBlank(_)
DropLeadingBlank(ls) ==
    IF ls # <<>> /\ IsBlank(Head(ls)) THEN DropLeadingBlank(Tail(ls)) ELSE ls

RECURSIVE DropTrailingBlank(_)
DropTrailingBlank(ls) ==
    IF ls # <<>> /\ IsBlank(ls[Len(ls)])
    THEN DropTrailingBlank(Slice(ls, 0, Len(ls) - 1)) ELSE ls

_trim_blank_ends(text) ==
    LET ls == DropTrailingBlank(DropLeadingBlank(SplitLines(text)))
    IN  IF ls = <<>> THEN <<>> ELSE JoinWith(ls, <<"\n">>)

\* Mutant: the text is returned as it is.
_ensure_trailing_newline_never(text) == text

_ensure_trailing_newline(text) ==
    IF EndsWith(text, <<"\n">>) THEN text ELSE text \o <<"\n">>

\* re.sub(r"[ \t]+", " ", text)
RECURSIVE CollapseRuns(_)
CollapseRuns(text) ==
    IF text = <<>> THEN <<>>
    ELSE IF Head(text) \in {" ", "\t"}
    THEN <<" ">> \o CollapseRuns(Slice(text, ClassRunLength(text, {" ", "\t"}), Len(text)))
    ELSE <<Head(text)>> \o CollapseRuns(Tail(text))

_collapse_spaces(text) == Strip(CollapseRuns(text))

RECURSIVE SquashInto(_, _)
SquashInto(res, ls) ==
    IF ls = <<>> THEN res
    ELSE IF Head(ls) # <<>> THEN SquashInto(Append(res, Head(ls)), Tail(ls))
    ELSE IF res # <<>> /\ res[Len(res)] = <<>> THEN SquashInto(res, Tail(ls))
    ELSE SquashInto(Append(res, <<>>), Tail(ls))

RECURSIVE DropTrailingEmpty(_)
DropTrailingEmpty(ls) ==
    IF ls # <<>> /\ ls[Len(ls)] = <<>>
    THEN DropTrailingEmpty(Slice(ls, 0, Len(ls) - 1)) ELSE ls

_squash_blank_lines(ls) == DropTrailingEmpty(SquashInto(<<>>, ls))

(***************************************************************************)
(* normalize.py: line classifiers.                                         *)
(***************************************************************************)
\* HORIZONTAL_RULE_COMPACT_RE.fullmatch of the line without its spaces
_looks_like_horizontal_rule(stripped) ==
    LET compact == Replace(stripped, <<" ">>, <<>>)
    IN  /\ Len(compact) >= 3
        /\ \A k \in 1..Len(compact) : compact[k] \in {"*", "-", "_"}

_is_blockquote_line(line) == StartsWith(LStrip(line), <<">">>)

\* FENCE_RE on the left-stripped line: None, or the marker run and the rest.
_match_fence_start(line) ==
    LET stripped == LStrip(line)
        n == IF stripped # <<>> /\ Head(stripped) \in {Backtick, "~"}
             THEN RunLength(stripped, Head(stripped)) ELSE 0
    IN  IF n >= 3
        THEN Some([marker |-> Slice(stripped, 0, n), rest |-> Slice(stripped, n, Len(stripped))])
        ELSE None

\* SETEXT_UNDERLINE_RE.match: up to three spaces, a run of = or of -, whitespace
SetextUnderline(line) ==
    LET indent == RunLength(line, " ")
        body == Slice(line, indent, Len(line))
        run == IF body # <<>> /\ Head(body) \in {"=", "-"}
               THEN RunLength(body, Head(body)) ELSE 0
    IN  /\ indent <= 3
        /\ run >= 1
        /\ IsBlank(Slice(body, run, Len(body)))

\* lines is the list and index the 0-based position
_is_setext_heading(ls, index) ==
    /\ index + 1 < Len(ls)
    /\ Strip(ls[index + 1]) # <<>>
    /\ SetextUnderline(ls[index + 2])

_normalize_setext_heading(title_line, underline_line) ==
    LET level == IF StartsWith(Strip(underline_line), <<"=">>) THEN 1 ELSE 2
        text == _collapse_spaces(Strip(title_line))
    IN  RStrip(Repeat("#", level) \o <<" ">> \o text)

\* ATX_HEADING_RE.match on a stripped line: None, or the marker and the body
AtxHeading(stripped) ==
    LET n == RunLength(stripped, "#")
    IN  IF /\ 1 <= n
           /\ n <= 6
           /\ (Len(stripped) = n \/ IsSpace(stripped[n + 1]))
        THEN Some([marker |-> Slice(stripped, 0, n), body |-> Slice(stripped, n, Len(stripped))])
        ELSE None

\* re.sub(r"\s*#+\s*$", "", body) for a stripped body: the trailing run of #
\* and the whitespace before it are removed.
StripTrailingHashes(body) ==
    LET rev == [k \in 1..Len(body) |-> body[Len(body) + 1 - k]]
        hashes == RunLength(rev, "#")
    IN  IF hashes = 0 THEN body
        ELSE RStrip(Slice(body, 0, Len(body) - hashes))

_normalize_atx_heading(line) ==
    LET stripped == Strip(line)
        match == AtxHeading(stripped)
    IN  IF match = None THEN stripped
        ELSE LET body == StripTrailingHashes(Strip(match[1].body))
                 collapsed == IF body # <<>> THEN _collapse_spaces(body) ELSE body
             IN  RStrip(match[1].marker \o <<" ">> \o collapsed)

\* UNORDERED_LIST_RE.match: None, or the indent and the text after the marker
UnorderedItem(line) ==
    LET n == ClassRunLength(line, {" ", "\t"})
        after == Slice(line, n + 1, Len(line))
        ws == ClassRunLength(after, WhitespaceChars)
    IN  IF n < Len(line) /\ line[n + 1] \in {"*", "+", "-"} /\ ws >= 1
        THEN Some([indent |-> Slice(line, 0, n), rest |-> Slice(after, ws, Len(after))])
        ELSE None

\* ORDERED_LIST_RE.match: None, or the indent and the text after the marker
OrderedItem(line) ==
    LET n == ClassRunLength(line, {" ", "\t"})
        digits == ClassRunLength(Slice(line, n, Len(line)), AsciiDigits)
        after == Slice(line, n + digits + 1, Len(line))
        ws == ClassRunLength(after, WhitespaceChars)
    IN  IF /\ digits >= 1
           /\ n + digits < Len(line)
           /\ line[n + digits + 1] \in {".", ")"}
           /\ ws >= 1
        THEN Some([indent |-> Slice(line, 0, n), rest |-> Slice(after, ws, Len(after))])
        ELSE None

_is_list_item_line(line) == UnorderedItem(line) # None \/ OrderedItem(line) # None

_indent_depth(indent) ==
    LET expanded == Replace(indent, <<"\t">>, <<" ", " ", " ", " ">>)
    IN  IF expanded = <<>> THEN 0
        ELSE IF (\A k \in 1..Len(expanded) : expanded[k] = " ") /\ Len(expanded) % 4 = 0
        THEN Len(expanded) \div 4
        ELSE Max2(1, (Len(expanded) + 1) \div 2)

(***************************************************************************)
(* normalize.py: _normalize_inline_markup.  A stashed code span is held in *)
(* the text as one element, the token "@@CODEn@@": the token starts and   *)
(* ends with "@", so it is neither whitespace nor a word character.        *)
(***************************************************************************)
CodeToken(n) == "@@CODE" \o ToString(n) \o "@@"

\* INLINE_CODE_RE.sub(_stash_code, text): a run of backticks, at least one
\* other character, and the next run of backticks.
RECURSIVE StashCode(_, _)
StashCode(text, placeholders) ==
    IF text = <<>> THEN [temp |-> <<>>, placeholders |-> placeholders]
    ELSE LET open == RunLength(text, Backtick)
             after == Slice(text, open, Len(text))
             body == ClassRunLength(after, {after[k] : k \in 1..Len(after)} \ {Backtick})
             close == RunLength(Slice(after, body, Len(after)), Backtick)
         IN  IF open >= 1 /\ body >= 1 /\ close >= 1
             THEN LET span == Slice(text, 0, open + body + close)
                      rec == StashCode(Slice(text, open + body + close, Len(text)),
                                       Append(placeholders, span))
                  IN  [temp |-> <<CodeToken(Len(placeholders))>> \o rec.temp,
                       placeholders |-> rec.placeholders]
             ELSE LET rec == StashCode(Tail(text), placeholders)
                  IN  [temp |-> <<Head(text)>> \o rec.temp,
                       placeholders |-> rec.placeholders]

IsUnderscores(temp, lo, hi) ==
    hi <= Len(temp) /\ \A k \in (lo + 1)..hi : temp[k] = "_"

\* The ends e of the group of a match of (?<!\w)_{d}(?=\S)(.+?)(?<=\S)_{d}(?!\w)
\* that starts at p (0-based).
GroupEnds(temp, p, d) ==
    IF /\ (p = 0 \/ ~IsWord(temp[p]))
       /\ IsUnderscores(temp, p, p + d)
       /\ p + d < Len(temp)
       /\ ~IsSpace(temp[p + d + 1])
    THEN {e \in (p + d + 1)..(Len(temp) - d) :
             /\ ~IsSpace(temp[e])
             /\ IsUnderscores(temp, e, e + d)
             /\ (e + d = Len(temp) \/ ~IsWord(temp[e + d + 1]))}
    ELSE {}

\* pattern.finditer(temp) from pos on: the next match, as start and group end
NextMatch(temp, pos, d) ==
    LET starts == {p \in pos..Len(temp) : GroupEnds(temp, p, d) # {}}
    IN  IF starts = {} THEN None
        ELSE LET p == SetMin(starts)
             IN  Some([start |-> p, group_end |-> SetMin(GroupEnds(temp, p, d))])

\* strong_repl (d = 2) and emphasis_repl (d = 1)
Repl(group0, group1, d) ==
    IF group0 # <<>> /\ StartsWith(group0, <<"\\">>) THEN group0
    ELSE Repeat("*", d) \o group1 \o Repeat("*", d)

RECURSIVE ApplyFrom(_, _, _, _)

\* The body of the finditer loop for the match m, None when there is no more
ApplyMatch(temp, last, d, m) ==
    IF m = None THEN Slice(temp, last, Len(temp))
    ELSE IF m[1].start > 0 /\ temp[m[1].start] = "\\"
    THEN ApplyFrom(temp, m[1].group_end + d, last, d)
    ELSE Slice(temp, last, m[1].start)
         \o Repl(Slice(temp, m[1].start, m[1].group_end + d),
                 Slice(temp, m[1].start + d, m[1].group_end), d)
         \o ApplyFrom(temp, m[1].group_end + d, m[1].group_end + d, d)

ApplyFrom(temp, pos, last, d) == ApplyMatch(temp, last, d, NextMatch(temp, pos, d))

_apply_with_escape_guard(temp, d) == ApplyFrom(temp, 0, 0, d)

\* temp.replace(token, original) for every stashed span
RECURSIVE RestoreCode(_, _)
RestoreCode(temp, placeholders) ==
    IF temp = <<>> THEN <<>>
    ELSE LET hits == {n \in 1..Len(placeholders) : Head(temp) = CodeToken(n - 1)}
         IN  (IF hits = {} THEN <<Head(temp)>> ELSE placeholders[SetMin(hits)])
             \o RestoreCode(Tail(temp), placeholders)

\* The passes of _normalize_inline_markup after the code spans are stashed
MarkupPasses(stashed) ==
        LET strong == _apply_with_escape_guard(stashed.temp, 2)
             emphasis == _apply_with_escape_guard(strong, 1)
             r1 == Replace(emphasis, <<"\\", "\\", "*", "\\", "_">>,
                                     <<"\\", "\\", "_", "\\", "_">>)
             r2 == Replace(r1, <<"\\", "\\", "_", "\\", "*">>,
                               <<"\\", "\\", "_", "\\", "_">>)
             r3 == Replace(r2, <<"\\", "\\", "*", "\\", "*">>,
                               <<"\\", "\\", "_", "\\", "_">>)
        IN  RestoreCode(r3, stashed.placeholders)

_normalize_inline_markup(text) ==
    IF text = <<>> \/ \A k \in 1..Len(text) : text[k] # "_" THEN text
    ELSE MarkupPasses(StashCode(text, <<>>))

(***************************************************************************)
(* normalize.py: tables.                                                   *)
(***************************************************************************)
_looks_like_table_row(line) ==
    LET stripped == Strip(line)
    IN  /\ stripped # <<>>
        /\ ~StartsWith(stripped, <<Backtick>>)
        /\ \E k \in 1..Len(stripped) : stripped[k] = "|"

\* \s*:?[-]+:?\s* over a whole cell
SeparatorCell(part) ==
    LET s == Strip(part)
        colon == IF StartsWith(s, <<":">>) THEN 1 ELSE 0
        dashes == RunLength(Slice(s, colon, Len(s)), "-")
    IN  /\ dashes >= 1
        /\ Slice(s, colon + dashes, Len(s)) \in {<<>>, <<":">>}

\* TABLE_SEPARATOR_RE.match(line.strip()): an optional pipe, two or more
\* separator cells between pipes, an optional closing pipe.
_is_table_separator_line(line) ==
    LET stripped == Strip(line)
        inner == IF StartsWith(stripped, <<"|">>) THEN Tail(stripped) ELSE stripped
        parts == SplitChar(inner, "|", <<>>)
        cells == IF Len(parts) >= 2 /\ IsBlank(parts[Len(parts)])
                 THEN Slice(parts, 0, Len(parts) - 1) ELSE parts
    IN  /\ Len(cells) >= 2
        /\ \A k \in 1..Len(cells) : SeparatorCell(cells[k])

_is_table_block_start(ls, index) ==
    /\ index + 1 < Len(ls)
    /\ _looks_like_table_row(ls[index + 1])
    /\ _is_table_separator_line(ls[index + 2])

_split_table_cells(line) ==
    LET stripped == Strip(line)
        s1 == IF StartsWith(stripped, <<"|">>) THEN Tail(stripped) ELSE stripped
        s2 == IF EndsWith(s1, <<"|">>) THEN Slice(s1, 0, Len(s1) - 1) ELSE s1
        parts == SplitChar(s2, "|", <<>>)
    IN  IF parts # <<>> THEN parts ELSE << <<>> >>

TableLine(cells) == <<"|", " ">> \o JoinWith(cells, <<" ", "|", " ">>) \o <<" ", "|">>

_normalize_table_row_line(line) ==
    LET cells == _split_table_cells(line)
    IN  TableLine([k \in 1..Len(cells) |-> _normalize_inline_markup(Strip(cells[k]))])

_normalize_table_separator_cell(cell) ==
    LET stripped == Strip(cell)
        align_left == StartsWith(stripped, <<":">>)
        align_right == EndsWith(stripped, <<":">>) /\ Len(stripped) > 0
        dash_count == Max2(3, Count(stripped, "-"))
        dashes == Repeat("-", dash_count)
    IN  IF align_left /\ align_right THEN <<":">> \o dashes \o <<":">>
        ELSE IF align_left THEN <<":">> \o dashes
        ELSE IF align_right THEN dashes \o <<":">>
        ELSE dashes

_normalize_table_separator_line(line) ==
    LET cells == _split_table_cells(line)
    IN  TableLine([k \in 1..Len(cells) |-> _normalize_table_separator_cell(cells[k])])

(***************************************************************************)
(* normalize.py: the transformation counters.  A Counter holds a key only  *)
(* with a positive count, so it is modelled as a function that is 0 on the *)
(* keys it does not hold.                                                  *)
(***************************************************************************)
StatNames ==
    {"code_fence_marker", "setext_to_atx", "horizontal_rule", "table_separator",
     "table_cells", "blockquote_prefix", "unordered_list_marker",
     "ordered_list_marker"}

Counter == [name \in StatNames |-> 0]
AddStat(stats, name, n) == [stats EXCEPT ![name] = @ + n]
UpdateStats(stats, other) == [name \in StatNames |-> stats[name] + other[name]]

(***************************************************************************)
(* normalize.py: the block normalizers.  Each returns the block it emits,  *)
(* the number of lines it consumed and its counters.  start is 0-based.    *)
(***************************************************************************)


RECURSIVE FenceBody(_, _, _, _, _, _)
FenceBody(ls, start, i, marker_char, block, changed) ==
    IF i >= Len(ls)
    THEN [block |-> Append(block, <<Backtick, Backtick, Backtick>>),
          consumed |-> i - start + 1, changed |-> changed + 1]
    ELSE LET current == ls[i + 1]
             closing_match == _match_fence_start(current)
         IN  IF /\ closing_match # None
                /\ closing_match[1].marker[1] = marker_char
                /\ {closing_match[1].marker[k] : k \in 1..Len(closing_match[1].marker)}
                        = {marker_char}
             THEN [block |-> Append(block, <<Backtick, Backtick, Backtick>>),
                   consumed |-> i - start + 1,
                   changed |-> IF closing_match[1].marker # <<Backtick, Backtick, Backtick>>
                               THEN changed + 1 ELSE changed]
             ELSE FenceBody(ls, start, i + 1, marker_char,
                            Append(block, RStripNewlines(current)), changed)

_normalize_code_fence(ls, start, match) ==
    LET marker == match.marker
        language == Strip(match.rest)
        normalized_marker == <<Backtick, Backtick, Backtick>>
        normalized_line == IF language # <<>>
                           THEN normalized_marker \o <<" ">> \o language
                           ELSE normalized_marker
        changed == IF marker # normalized_marker THEN 1 ELSE 0
    IN  FenceBody(ls, start, start + 1, marker[1], <<normalized_line>>, changed)

\* Mutant: every leading marker is stripped, not one.
RECURSIVE _strip_one_blockquote_marker_all(_)
_strip_one_blockquote_marker_all(line) ==
    IF ~StartsWith(LStrip(line), <<">">>) THEN LStrip(line)
    ELSE _strip_one_blockquote_marker_all(Tail(LStrip(line)))

_strip_one_blockquote_marker(line) ==
    LET stripped == LStrip(line)
    IN  IF ~StartsWith(stripped, <<">">>) THEN stripped ELSE LStrip(Tail(stripped))

_count_line_differences(original, updated) ==
    LET max_len == Max2(Len(original), Len(updated))
        StrippedAt(s, idx) == IF idx < Len(s) THEN Strip(s[idx + 1]) ELSE <<>>
    IN  Cardinality({idx \in 0..(max_len - 1) :
                        StrippedAt(original, idx) # StrippedAt(updated, idx)})

RECURSIVE QuoteRunLength(_, _)
QuoteRunLength(ls, i) ==
    IF i < Len(ls) /\ _is_blockquote_line(ls[i + 1]) THEN 1 + QuoteRunLength(ls, i + 1) ELSE 0

QuoteLine(inner_line) ==
    IF StartsWith(inner_line, <<">">>) THEN <<">">> \o inner_line
    ELSE IF inner_line # <<>> THEN <<">", " ">> \o inner_line
    ELSE <<">">>

\* The normalized line of an item and its counter
ListItem(indent, rest, bullet, name) ==
    LET normalized_indent == Repeat(" ", _indent_depth(indent) * 4)
    IN  [normalized |-> IF rest # <<>>
                        THEN normalized_indent \o bullet \o <<" ">> \o rest
                        ELSE normalized_indent \o bullet,
         name |-> name]

AddItem(acc, item, line) ==
    [block |-> Append(acc.block, item.normalized),
     stats |-> IF item.normalized # RStrip(line)
               THEN AddStat(acc.stats, item.name, 1) ELSE acc.stats]

RECURSIVE ListItems(_, _, _)
ListItems(ls, i, acc) ==
    IF i >= Len(ls) \/ IsBlank(ls[i + 1]) THEN acc
    ELSE LET line == ls[i + 1]
             unordered == UnorderedItem(line)
             ordered == OrderedItem(line)
         IN  IF unordered = None /\ ordered = None THEN acc
             ELSE IF unordered # None
             THEN ListItems(ls, i + 1,
                      AddItem(acc, ListItem(unordered[1].indent,
                                            _normalize_inline_markup(LStrip(unordered[1].rest)),
                                            <<"-">>, "unordered_list_marker"), line))
             ELSE ListItems(ls, i + 1,
                      AddItem(acc, ListItem(ordered[1].indent,
                                            _normalize_inline_markup(LStrip(ordered[1].rest)),
                                            <<"1", ".">>, "ordered_list_marker"), line))

BlockOfItems(items) ==
    [block |-> items.block, consumed |-> Len(items.block), stats |-> items.stats]

_normalize_list_block(ls, start) ==
    BlockOfItems(ListItems(ls, start, [block |-> <<>>, stats |-> Counter]))

RECURSIVE TableRunLength(_, _)
TableRunLength(ls, i) ==
    IF /\ i < Len(ls)
       /\ ~IsBlank(ls[i + 1])
       /\ (\/ _looks_like_table_row(Strip(ls[i + 1]))
           \/ _is_table_separator_line(Strip(ls[i + 1])))
    THEN 1 + TableRunLength(ls, i + 1) ELSE 0

AddTableLine(acc, line, new_line, name) ==
    [block |-> Append(acc.block, new_line),
     stats |-> IF new_line # line THEN AddStat(acc.stats, name, 1) ELSE acc.stats]

RECURSIVE TableLines(_, _)
TableLines(block_lines, acc) ==
    IF block_lines = <<>> THEN acc
    ELSE IF _is_table_separator_line(Head(block_lines))
    THEN TableLines(Tail(block_lines),
             AddTableLine(acc, Head(block_lines),
                          _normalize_table_separator_line(Head(block_lines)),
                          "table_separator"))
    ELSE TableLines(Tail(block_lines),
             AddTableLine(acc, Head(block_lines),
                          _normalize_table_row_line(Head(block_lines)),
                          "table_cells"))

BlockOfTable(res, n) == [block |-> res.block, consumed |-> n, stats |-> res.stats]

TableBlockOf(ls, start, n) ==
    BlockOfTable(TableLines([k \in 1..n |-> Strip(ls[start + k])],
                            [block |-> <<>>, stats |-> Counter]), n)

_normalize_table_block(ls, start) == TableBlockOf(ls, start, TableRunLength(ls, start))

_is_block_start(ls, index) ==
    LET line == ls[index + 1]
        stripped == Strip(line)
    IN  \/ _match_fence_start(line) # None
        \/ _is_blockquote_line(line)
        \/ _is_list_item_line(line)
        \/ AtxHeading(stripped) # None
        \/ _looks_like_horizontal_rule(stripped)
        \/ _is_setext_heading(ls, index)

\* The lines of the paragraph that starts at i
RECURSIVE ParagraphLines(_, _)
ParagraphLines(ls, i) ==
    IF i >= Len(ls) \/ IsBlank(ls[i + 1]) \/ _is_block_start(ls, i) THEN <<>>
    ELSE <<RStrip(ls[i + 1])>> \o ParagraphLines(ls, i + 1)

RECURSIVE _normalize_blocks(_)
RECURSIVE BlockScan(_, _, _, _)
RECURSIVE Continue(_, _)

\* The prefixed lines of a blockquote whose inner text was normalized to inner
QuoteBlock(inner) ==
    LET pieces == SplitChar(inner.text, "\n", <<>>)
    IN  IF inner.text # <<>>
        THEN [k \in 1..Len(pieces) |-> QuoteLine(pieces[k])]
        ELSE << <<">">> >>

QuoteResult(raw_lines, inner_stats, normalized_block, differences) ==
    [block |-> normalized_block, consumed |-> Len(raw_lines),
     stats |-> IF differences # 0
               THEN AddStat(inner_stats, "blockquote_prefix", differences)
               ELSE inner_stats]

QuoteOf(raw_lines, inner, normalized_block) ==
    QuoteResult(raw_lines, inner.stats, normalized_block,
                _count_line_differences(raw_lines, normalized_block))

QuoteInner(raw_lines, inner) == QuoteOf(raw_lines, inner, QuoteBlock(inner))

\* "\n".join(inner_lines), the text the recursive call is given
InnerText(raw_lines) ==
    JoinWith([k \in 1..Len(raw_lines) |-> _strip_one_blockquote_marker(raw_lines[k])],
             <<"\n">>)

QuoteRaw(raw_lines) ==
    QuoteInner(raw_lines,
        IF raw_lines # <<>>
        THEN _normalize_blocks(InnerText(raw_lines))
        ELSE [text |-> <<>>, stats |-> Counter])

\* The contiguous blockquote lines from start on
RawLines(ls, start) == Slice(ls, start, start + QuoteRunLength(ls, start))

_normalize_blockquote_block(ls, start) == QuoteRaw(RawLines(ls, start))

\* The loop variables after one turn of the while loop of _normalize_blocks
Turn(i, output, stats) == [i |-> i, output |-> output, stats |-> stats]

\* output.extend(block); stats.update(block_stats); i += consumed
Extend(i, output, stats, b) ==
    Turn(i + b.consumed, output \o b.block, UpdateStats(stats, b.stats))

\* The same for a code fence, which reports one number
ExtendFence(i, output, stats, f) ==
    Turn(i + f.consumed, output \o f.block,
         IF f.changed # 0 THEN AddStat(stats, "code_fence_marker", f.changed)
         ELSE stats)

\* The paragraph branch for the lines it collected
ExtendParagraph(i, output, stats, paragraph_lines) ==
    Turn(i + Len(paragraph_lines),
         IF paragraph_lines # <<>>
         THEN Append(output, _normalize_inline_markup(
                                 _collapse_spaces(JoinWith(paragraph_lines, <<" ">>))))
         ELSE output,
         stats)

\* The branch the while loop of _normalize_blocks takes at line i
Branch(ls, i, line, stripped, fence_match) ==
    IF stripped = <<>> THEN "blank"
    ELSE IF fence_match # None THEN "fence"
    ELSE IF _is_setext_heading(ls, i) THEN "setext"
    ELSE IF _looks_like_horizontal_rule(stripped) THEN "rule"
    ELSE IF AtxHeading(stripped) # None THEN "atx"
    ELSE IF _is_table_block_start(ls, i) THEN "table"
    ELSE IF _is_blockquote_line(line) THEN "blockquote"
    ELSE IF _is_list_item_line(line) THEN "list"
    ELSE "paragraph"

BranchAt(ls, i) ==
    Branch(ls, i, ls[i + 1], Strip(ls[i + 1]), _match_fence_start(ls[i + 1]))

\* One turn of the while loop of _normalize_blocks at line i
ScanLine(ls, i, output, stats, line, stripped, fence_match, branch) ==
    IF branch = "blank"
    THEN Turn(i + 1,
              IF output # <<>> /\ output[Len(output)] # <<>>
              THEN Append(output, <<>>) ELSE output, stats)
    ELSE IF branch = "fence"
    THEN ExtendFence(i, output, stats, _normalize_code_fence(ls, i, fence_match[1]))
    ELSE IF branch = "setext"
    THEN Turn(i + 2,
              Append(output, _normalize_setext_heading(ls[i + 1], ls[i + 2])),
              AddStat(stats, "setext_to_atx", 1))
    ELSE IF branch = "rule"
    THEN Turn(i + 1, Append(output, <<"-", "-", "-">>),
              IF stripped # <<"-", "-", "-">>
              THEN AddStat(stats, "horizontal_rule", 1) ELSE stats)
    ELSE IF branch = "atx"
    THEN Turn(i + 1, Append(output, _normalize_atx_heading(line)), stats)
    ELSE IF branch = "table"
    THEN Extend(i, output, stats, _normalize_table_block(ls, i))
    ELSE IF branch = "blockquote"
    THEN Extend(i, output, stats, _normalize_blockquote_block(ls, i))
    ELSE IF branch = "list"
    THEN Extend(i, output, stats, _normalize_list_block(ls, i))
    ELSE ExtendParagraph(i, output, stats, ParagraphLines(ls, i))

ScanLineAt(ls, i, output, stats) ==
    ScanLine(ls, i, output, stats, ls[i + 1], Strip(ls[i + 1]),
             _match_fence_start(ls[i + 1]), BranchAt(ls, i))

\* The loop goes on with the variables a turn left
Continue(ls, turn) == BlockScan(ls, turn.i, turn.output, turn.stats)

\* The while loop of _normalize_blocks from line i on
BlockScan(ls, i, output, stats) ==
    IF i >= Len(ls) THEN [output |-> output, stats |-> stats]
    ELSE Continue(ls, ScanLineAt(ls, i, output, stats))

Cleaned(scan) ==
    [text |-> JoinWith(_squash_blank_lines(scan.output), <<"\n">>), stats |-> scan.stats]

_normalize_blocks(text) == Cleaned(BlockScan(SplitLines(text), 0, <<>>, Counter))

(***************************************************************************)
(* normalize.py: normalize, and models.py: NormalizedDocument.             *)
(***************************************************************************)
\* hashlib.sha256 of the text.  The hash is taken as free of collisions on
\* the texts of the model: a digest is the text it was computed from, tagged.
Sha256(text) == <<"sha256", text>>

NormalizationMetadata(original_length, normalized_length, transformations) ==
    [original_length |-> original_length, normalized_length |-> normalized_length,
     transformations |-> transformations]

NormalizedDocument(source_id, doc_lines, metadata, digest) ==
    [source_id |-> source_id, lines |-> doc_lines, metadata |-> metadata,
     digest |-> digest]

\* NormalizedDocument.text
Text(document) == Concat(document.lines)

\* The document for the normalized text
DocumentOf(source_id, original_length, normalized_text, stats) ==
    NormalizedDocument(source_id, SplitLinesKeepEnds(normalized_text),
        NormalizationMetadata(original_length, Len(normalized_text), stats),
        Sha256(normalized_text))

Finish(source_id, original_length, blocks) ==
    DocumentOf(source_id, original_length,
               _ensure_trailing_newline(_trim_blank_ends(blocks.text)), blocks.stats)

Normalized(source_id, original_text) ==
    Finish(source_id, Len(original_text), _normalize_blocks(original_text))

normalize(value, source_id) ==
    Normalized(source_id, _strip_bom(_normalize_line_endings(_coerce_text(value))))


(***************************************************************************)
(* Inputs.  The documents are the line sequences over a pool of canonical  *)
(* lines that normalize returns (two similar list items, a heading, a      *)
(* blank line between blocks), and the empty line tuple, which only a      *)
(* hand-built NormalizedDocument has.                                      *)
(***************************************************************************)
LineB == <<"-", " ", "b", "\n">>
LineC == <<"-", " ", "c", "\n">>
LineX == <<"#", " ", "x", "\n">>
LineBlank == <<"\n">>
LinePool == {LineB, LineC, LineX, LineBlank}

IsCanonicalDocument(d) ==
    \/ d = <<>>
    \/ d = <<LineBlank>>
    \/ /\ d[1] # LineBlank
       /\ d[Len(d)] # LineBlank
       /\ \A k \in 1..(Len(d) - 1) : ~(d[k] = LineBlank /\ d[k + 1] = LineBlank)

Documents == {d \in SeqsUpTo(LinePool, MaxDocLines) : IsCanonicalDocument(d)}

\* None is the default configuration; thresholds are in hundredths.
ConfigPool ==
    {None,
     Some([min_real_quick_ratio |-> 0, min_quick_ratio |-> 0, min_ratio |-> 0]),
     Some([min_real_quick_ratio |-> 20, min_quick_ratio |-> 30, min_ratio |-> 90]),
     Some([min_real_quick_ratio |-> 50, min_quick_ratio |-> 50, min_ratio |-> 0])}

\* The context radii given to the windowing on its own, and to diff_normalized.
ContextPool == {None, Some(-1)} \cup {Some(c) : c \in 0..MaxContext}
DiffContextPool == {None, Some(-1), Some(0), Some(1)}

\* A flat DiffLine list with the given kinds, numbered as the opcode loop
\* numbers it: nl and nr are the left and right lines consumed so far.
RECURSIVE LinesOfKinds(_, _, _)
LinesOfKinds(kinds, nl, nr) ==
    IF kinds = <<>> THEN <<>>
    ELSE LET k == Head(kinds)
         IN  IF k = UNCHANGED_
             THEN <<DiffLine(k, Some(nl + 1), Some(nr + 1), Some(LineX), Some(LineX), <<>>)>>
                  \o LinesOfKinds(Tail(kinds), nl + 1, nr + 1)
             ELSE IF k = EDITED
             THEN <<DiffLine(k, Some(nl + 1), Some(nr + 1), Some(LineB), Some(LineC),
                             diff_inline(LineB, LineC))>>
                  \o LinesOfKinds(Tail(kinds), nl + 1, nr + 1)
             ELSE IF k = DELETED
             THEN <<DiffLine(k, Some(nl + 1), None, Some(LineB), None, <<>>)>>
                  \o LinesOfKinds(Tail(kinds), nl + 1, nr)
             ELSE <<DiffLine(k, None, Some(nr + 1), None, Some(LineC), <<>>)>>
                  \o LinesOfKinds(Tail(kinds), nl, nr + 1)

LineLists ==
    {LinesOfKinds(ks, 0, 0) : ks \in SeqsUpTo({UNCHANGED_, INSERTED, DELETED, EDITED}, MaxWinLines)}

(***************************************************************************)
(* The variables of the operations that a specification does not run keep  *)
(* these values.                                                           *)
(***************************************************************************)
InlineIdle ==
    /\ inline_left = <<>>
    /\ inline_right = <<>>
    /\ inline_segments = None
    /\ inline_eligible = None

ScanIdle == frames = <<>>

(***************************************************************************)
(* diff_normalized(left, right, inline_config, context) as a pipeline: the *)
(* opcode loop, then the windowing, which returns the DiffResult or        *)
(* raises.  The arguments are drawn where the code first reads them.       *)
(***************************************************************************)
BuildLines ==
    /\ pc = "start"
    /\ \E cfg \in ConfigPool :
        /\ inline_config' = cfg
        /\ lines' = ExpandOpcodes(get_opcodes(left, right), left, right, cfg)
    /\ pc' = "built"
    /\ UNCHANGED <<left, right, context, result, raised>>
    /\ UNCHANGED normVars
    /\ UNCHANGED <<inlineVars, scanVars>>

\* filtered_lines = _apply_context(lines, context); return DiffResult(...)
ApplyContextReturn(pool) ==
    /\ pc = "built"
    /\ \E ctx \in pool :
        /\ _apply_context(lines, ctx).raised = ""
        /\ context' = ctx
        /\ result' = Some(_apply_context(lines, ctx).value)
    /\ pc' = "done"
    /\ UNCHANGED <<left, right, inline_config, lines, raised>>
    /\ UNCHANGED normVars
    /\ UNCHANGED <<inlineVars, scanVars>>

\* _apply_context raises and the exception leaves diff_normalized
ApplyContextRaise(pool) ==
    /\ pc = "built"
    /\ \E ctx \in pool :
        /\ _apply_context(lines, ctx).raised # ""
        /\ context' = ctx
        /\ raised' = _apply_context(lines, ctx).raised
    /\ pc' = "failed"
    /\ UNCHANGED <<left, right, inline_config, lines, result>>
    /\ UNCHANGED normVars
    /\ UNCHANGED <<inlineVars, scanVars>>

DiffReturn == ApplyContextReturn(DiffContextPool)
DiffRaise == ApplyContextRaise(DiffContextPool)

Init ==
    /\ pc = "start"
    /\ left \in Documents
    /\ right \in Documents
    /\ inline_config = None
    /\ context = None
    /\ lines = <<>>
    /\ result = None
    /\ raised = ""
    /\ source = <<>>
    /\ doc = None
    /\ redoc = None
    /\ InlineIdle
    /\ ScanIdle

Next == BuildLines \/ DiffReturn \/ DiffRaise

Spec == Init /\ [][Next]_vars

(***************************************************************************)
(* _apply_context called on its own with any flat DiffLine list.           *)
(***************************************************************************)
WindowReturn == ApplyContextReturn(ContextPool)
WindowRaise == ApplyContextRaise(ContextPool)

InitWindow ==
    /\ pc = "built"
    /\ left = <<>>
    /\ right = <<>>
    /\ inline_config = None
    /\ context = None
    /\ lines \in LineLists
    /\ result = None
    /\ raised = ""
    /\ source = <<>>
    /\ doc = None
    /\ redoc = None
    /\ InlineIdle
    /\ ScanIdle

NextWindow == WindowReturn \/ WindowRaise

SpecWindow == InitWindow /\ [][NextWindow]_vars

(***************************************************************************)
(* normalize(source), then normalize of the text it returned.  The source  *)
(* texts are the concatenations of a few fragments of Markdown syntax.     *)
(***************************************************************************)
SourcePool ==
    {<<"a">>, <<" ">>, <<"\n">>, <<"-">>, <<"#">>, <<"_">>, <<">">>,
     <<Backtick, Backtick, Backtick>>}

Sources == {Concat(parts) : parts \in SeqsUpTo(SourcePool, MaxSourceParts)}

\* doc = normalize(source)
Normalize ==
    /\ pc = "source"
    /\ doc' = Some(normalize(source, "unknown"))
    /\ pc' = "normalized"
    /\ UNCHANGED <<source, redoc>>
    /\ UNCHANGED diffVars
    /\ UNCHANGED <<inlineVars, scanVars>>

\* redoc = normalize(doc.text)
Renormalize ==
    /\ pc = "normalized"
    /\ redoc' = Some(normalize(Text(doc[1]), "unknown"))
    /\ pc' = "renormalized"
    /\ UNCHANGED <<source, doc>>
    /\ UNCHANGED diffVars
    /\ UNCHANGED <<inlineVars, scanVars>>

InitNorm ==
    /\ pc = "source"
    /\ source \in Sources
    /\ doc = None
    /\ redoc = None
    /\ InlineIdle
    /\ ScanIdle
    /\ left = <<>>
    /\ right = <<>>
    /\ inline_config = None
    /\ context = None
    /\ lines = <<>>
    /\ result = None
    /\ raised = ""

NextNorm == Normalize \/ Renormalize

SpecNorm == InitNorm /\ [][NextNorm]_vars

(***************************************************************************)
(* normalize on documents made of whole lines: fences of three and four    *)
(* backticks, a fence of tildes, text with and without trailing space, and *)
(* the empty line.                                                         *)
(***************************************************************************)
FenceLinePool ==
    {Repeat(Backtick, 3), Repeat(Backtick, 4), Repeat("~", 3),
     <<"a">>, <<"a", " ">>, <<>>}

FenceSources ==
    {Concat([k \in 1..Len(ls) |-> ls[k] \o <<"\n">>]) :
        ls \in SeqsUpTo(FenceLinePool, MaxFenceLines)}

InitFence ==
    /\ pc = "source"
    /\ source \in FenceSources
    /\ doc = None
    /\ redoc = None
    /\ InlineIdle
    /\ ScanIdle
    /\ left = <<>>
    /\ right = <<>>
    /\ inline_config = None
    /\ context = None
    /\ lines = <<>>
    /\ result = None
    /\ raised = ""

SpecFence == InitFence /\ [][NextNorm]_vars

(***************************************************************************)
(* normalize on text as a caller supplies it: with carriage returns and a  *)
(* byte order mark.                                                        *)
(***************************************************************************)
RawPool == {<<"a">>, <<"\r">>, <<"\n">>, <<BOM>>}

RawSources == {Concat(parts) : parts \in SeqsUpTo(RawPool, MaxRawParts)}

InitRaw ==
    /\ pc = "source"
    /\ source \in RawSources
    /\ doc = None
    /\ redoc = None
    /\ InlineIdle
    /\ ScanIdle
    /\ left = <<>>
    /\ right = <<>>
    /\ inline_config = None
    /\ context = None
    /\ lines = <<>>
    /\ result = None
    /\ raised = ""

SpecRaw == InitRaw /\ [][NextNorm]_vars

(***************************************************************************)
(* _normalize_blocks run turn by turn.  frames is the call stack: one      *)
(* frame for each call of _normalize_blocks in progress, the innermost     *)
(* last, holding the variables of its while loop.  A step is one turn of   *)
(* the loop of the innermost call; at a blockquote the turn is split into  *)
(* the recursive call and, when that call has run to its end, the return.  *)
(***************************************************************************)
ScanPool == {<<">">>, <<"a">>, <<" ">>, <<"\n">>}

ScanSources == {Concat(parts) : parts \in SeqsUpTo(ScanPool, MaxScanParts)}

\* The variables of _normalize_blocks(text) before its loop
Frame(text) == [ls |-> SplitLines(text), i |-> 0, output |-> <<>>, stats |-> Counter]

\* The frame after a turn of its loop
Advance(frame, turn) ==
    [ls |-> frame.ls, i |-> turn.i, output |-> turn.output, stats |-> turn.stats]

Top == frames[Len(frames)]

AtEnd(frame) == frame.i >= Len(frame.ls)

\* A turn of the loop at a line that is not a blockquote line
ScanStep ==
    /\ pc = "scanning"
    /\ ~AtEnd(Top)
    /\ BranchAt(Top.ls, Top.i) # "blockquote"
    /\ frames' = [frames EXCEPT ![Len(frames)] =
                     Advance(@, ScanLineAt(@.ls, @.i, @.output, @.stats))]
    /\ UNCHANGED <<pc, diffVars, normVars, inlineVars>>

\* _normalize_blockquote_block calls _normalize_blocks on the inner text
QuoteCall ==
    /\ pc = "scanning"
    /\ ~AtEnd(Top)
    /\ BranchAt(Top.ls, Top.i) = "blockquote"
    /\ frames' = Append(frames, Frame(InnerText(RawLines(Top.ls, Top.i))))
    /\ UNCHANGED <<pc, diffVars, normVars, inlineVars>>

\* The caller's frame after the inner call returned: the rest of
\* _normalize_blockquote_block and of the caller's turn
Returned_(parent, inner) ==
    Advance(parent,
            Extend(parent.i, parent.output, parent.stats,
                   QuoteInner(RawLines(parent.ls, parent.i), Cleaned(inner))))

\* The inner call is at the end of its loop and returns to its caller
QuoteReturn ==
    /\ pc = "scanning"
    /\ Len(frames) >= 2
    /\ AtEnd(Top)
    /\ frames' = Append(Slice(frames, 0, Len(frames) - 2),
                        Returned_(frames[Len(frames) - 1], Top))
    /\ UNCHANGED <<pc, diffVars, normVars, inlineVars>>

\* The outermost call is at the end of its loop
ScanFinish ==
    /\ pc = "scanning"
    /\ Len(frames) = 1
    /\ AtEnd(Top)
    /\ pc' = "scanned"
    /\ UNCHANGED <<frames, diffVars, normVars, inlineVars>>

InitScan ==
    /\ pc = "scanning"
    /\ source \in ScanSources
    /\ frames = <<Frame(source)>>
    /\ doc = None
    /\ redoc = None
    /\ InlineIdle
    /\ left = <<>>
    /\ right = <<>>
    /\ inline_config = None
    /\ context = None
    /\ lines = <<>>
    /\ result = None
    /\ raised = ""

NextScan == ScanStep \/ QuoteCall \/ QuoteReturn \/ ScanFinish

SpecScan == InitScan /\ [][NextScan]_vars

\* A call in progress has a step to take: the guards of the four steps
\* cover pc = "scanning".
Running == pc = "scanning"

\* The interpreter does not stop in the middle of a call: weak fairness of
\* NextScan, WF_vars(NextScan), with ENABLED <<NextScan>>_vars written as
\* the state predicate it amounts to.
ScanFairness == []<>(~Running) \/ []<><<NextScan>>_vars

SpecScanFair == SpecScan /\ ScanFairness

(***************************************************************************)
(* diff_inline and _should_inline called on a pair of lines, as            *)
(* _build_replaced_lines calls them.  A line is a body with or without its *)
(* newline; the bodies hold a letter, a space and a letter outside ASCII.  *)
(***************************************************************************)
BodyChars == {"a", " ", "U+00E9"}

InlineLines ==
    {body \o nl : body \in SeqsUpTo(BodyChars, MaxBodyLen), nl \in {<<>>, <<"\n">>}}

\* The default configuration and one with thresholds outside [0, 1].
GateConfigPool ==
    {None,
     Some([min_real_quick_ratio |-> -10, min_quick_ratio |-> 0, min_ratio |-> 150])}

\* segments = diff_inline(left_line, right_line)
DiffInline ==
    /\ pc = "pair"
    /\ inline_segments' = Some(diff_inline(inline_left, inline_right))
    /\ pc' = "segmented"
    /\ UNCHANGED <<inline_left, inline_right, inline_eligible>>
    /\ UNCHANGED <<diffVars, normVars, scanVars>>

\* _should_inline(left_line, right_line, inline_config)
ShouldInline ==
    /\ pc = "pair"
    /\ \E cfg \in GateConfigPool :
        /\ inline_config' = cfg
        /\ inline_eligible' = Some(_should_inline(inline_left, inline_right, cfg))
    /\ pc' = "gated"
    /\ UNCHANGED <<inline_left, inline_right, inline_segments>>
    /\ UNCHANGED <<left, right, context, lines, result, raised>>
    /\ UNCHANGED <<normVars, scanVars>>

InitInline ==
    /\ pc = "pair"
    /\ inline_left \in InlineLines
    /\ inline_right \in InlineLines
    /\ inline_segments = None
    /\ inline_eligible = None
    /\ left = <<>>
    /\ right = <<>>
    /\ inline_config = None
    /\ context = None
    /\ lines = <<>>
    /\ result = None
    /\ raised = ""
    /\ source = <<>>
    /\ doc = None
    /\ redoc = None
    /\ ScanIdle

NextInline == DiffInline \/ ShouldInline

SpecInline == InitInline /\ [][NextInline]_vars

(***************************************************************************)
(* diff_inline on two line bodies long enough for a chain of changes and   *)
(* single spaces: two letters and the space, no line ending.               *)
(***************************************************************************)
WordChars2 == {"a", "b", " "}

WordLines == SeqsUpTo(WordChars2, MaxWordsLen)

InitWords ==
    /\ pc = "pair"
    /\ inline_left \in WordLines
    /\ inline_right \in WordLines
    /\ inline_segments = None
    /\ inline_eligible = None
    /\ left = <<>>
    /\ right = <<>>
    /\ inline_config = None
    /\ context = None
    /\ lines = <<>>
    /\ result = None
    /\ raised = ""
    /\ source = <<>>
    /\ doc = None
    /\ redoc = None
    /\ ScanIdle

NextWords == DiffInline

SpecWords == InitWords /\ [][NextWords]_vars

(***************************************************************************)
(* DiffLine(...) called by any caller, with any combination of fields: the *)
(* dataclass has no __post_init__, the generated __init__ stores what it   *)
(* is given.                                                               *)
(***************************************************************************)
KindPool == {UNCHANGED_, INSERTED, DELETED, EDITED, SKIPPED}

LinenoPool == {None, Some(1)}

TextPool == {None, Some(LineX)}

SegmentsPool == {<<>>, <<_segment(UNCHANGED_, LineX, LineX)>>}

\* line = DiffLine(kind=..., left_lineno=..., right_lineno=..., ...)
Construct ==
    /\ pc = "fields"
    /\ \E kind \in KindPool, left_lineno \in LinenoPool, right_lineno \in LinenoPool,
          left_text \in TextPool, right_text \in TextPool, segs \in SegmentsPool :
          lines' = <<DiffLine(kind, left_lineno, right_lineno, left_text, right_text, segs)>>
    /\ pc' = "constructed"
    /\ UNCHANGED <<left, right, inline_config, context, result, raised>>
    /\ UNCHANGED <<normVars, inlineVars, scanVars>>

InitLine ==
    /\ pc = "fields"
    /\ lines = <<>>
    /\ left = <<>>
    /\ right = <<>>
    /\ inline_config = None
    /\ context = None
    /\ result = None
    /\ raised = ""
    /\ source = <<>>
    /\ doc = None
    /\ redoc = None
    /\ InlineIdle
    /\ ScanIdle

NextLine == Construct

SpecLine == InitLine /\ [][NextLine]_vars

(***************************************************************************)
(* diff_normalized on documents whose paragraphs hold a letter outside     *)
(* ASCII, as normalize returns them for such a text.                       *)
(***************************************************************************)
LineA == <<"a", "\n">>
LineAE == <<"a", "U+00E9", "\n">>
AccentPool == {LineA, LineAE, LineX}

AccentDocuments == SeqsUpTo(AccentPool, MaxAccentLines)

InitAccent ==
    /\ pc = "start"
    /\ left \in AccentDocuments
    /\ right \in AccentDocuments
    /\ inline_config = None
    /\ context = None
    /\ lines = <<>>
    /\ result = None
    /\ raised = ""
    /\ source = <<>>
    /\ doc = None
    /\ redoc = None
    /\ InlineIdle
    /\ ScanIdle

SpecAccent == InitAccent /\ [][Next]_vars

(***************************************************************************)
(* Properties of the line differ and of the windowing.                     *)
(***************************************************************************)
\* The lines of a finished, returned diff.
Returned == result[1]

IsHeader(line) == line.kind = SKIPPED

\* C1 (reflexivity): a document diffed with itself without a context yields
\* one Unchanged line per line of the document, numbered k on both sides and
\* carrying the line's text on both sides, and has_changes is false.
C1_Reflexivity ==
    (pc = "done" /\ left = right /\ context = None) =>
        /\ Len(Returned) = Len(left)
        /\ \A k \in 1..Len(left) :
              Returned[k] = DiffLine(UNCHANGED_, Some(k), Some(k),
                                     Some(left[k]), Some(left[k]), <<>>)
        /\ ~has_changes(Returned)

C1_Witness ==
    /\ pc = "done"
    /\ left = right
    /\ context = None
    /\ left = <<LineB, LineBlank, LineB>>

\* The keep rule as the specification words it: position p (1-based) of the
\* list is kept iff its line is not Unchanged or a line that is not Unchanged
\* lies within c positions of it.
KeptByRule(ls, c, p) ==
    \/ ls[p].kind # UNCHANGED_
    \/ \E q \in 1..Len(ls) :
          /\ ls[q].kind # UNCHANGED_
          /\ p - q <= c
          /\ q - p <= c

\* The first positions of the maximal runs of kept positions, ascending.
RunStarts(ls, c) ==
    {p \in 1..Len(ls) : KeptByRule(ls, c, p) /\ (p = 1 \/ ~KeptByRule(ls, c, p - 1))}

\* The last position of the maximal run that starts at s.
RunEndOf(ls, c, s) ==
    SetMin({e \in s..Len(ls) : e = Len(ls) \/ ~KeptByRule(ls, c, e + 1)})

\* Position in the output of the header of the run that starts at s: one
\* header per earlier run plus the kept lines before s.
HeaderPos(ls, c, s) ==
    Cardinality({t \in RunStarts(ls, c) : t < s})
    + Cardinality({p \in 1..(s - 1) : KeptByRule(ls, c, p)}) + 1

WindowedWithChange ==
    /\ pc = "done"
    /\ context # None
    /\ has_changes(lines)

\* C3: with a context >= 0 and a list that holds a change, the output is, run
\* by run of the kept positions in input order, one Skipped header followed
\* by the run's lines unmodified, and nothing else; so with context 0 it holds
\* no Unchanged line and one header per maximal run of changed lines.
C3_OneHeaderPerRun ==
    WindowedWithChange =>
        LET c == context[1]
            starts == RunStarts(lines, c)
            kept == {p \in 1..Len(lines) : KeptByRule(lines, c, p)}
        IN  /\ Len(Returned) = Cardinality(starts) + Cardinality(kept)
            /\ \A s \in starts :
                  LET h == HeaderPos(lines, c, s)
                  IN  /\ IsHeader(Returned[h])
                      /\ \A p \in s..RunEndOf(lines, c, s) :
                            Returned[h + 1 + (p - s)] = lines[p]
            /\ c = 0 =>
                  /\ \A k \in 1..Len(Returned) : Returned[k].kind # UNCHANGED_
                  /\ Cardinality({k \in 1..Len(Returned) : IsHeader(Returned[k])})
                     = Cardinality({p \in 1..Len(lines) :
                           /\ lines[p].kind # UNCHANGED_
                           /\ (p = 1 \/ lines[p - 1].kind = UNCHANGED_)})

\* two runs, the second of more than one line
C3_Witness ==
    /\ WindowedWithChange
    /\ Cardinality(RunStarts(lines, context[1])) = 2
    /\ \E s \in RunStarts(lines, context[1]) : s > 1 /\ RunEndOf(lines, context[1], s) > s
    /\ \E p \in 1..Len(lines) : ~KeptByRule(lines, context[1], p)

RECURSIVE WithoutHeaders(_)
WithoutHeaders(ls) ==
    IF ls = <<>> THEN <<>>
    ELSE (IF IsHeader(Head(ls)) THEN <<>> ELSE <<Head(ls)>>) \o WithoutHeaders(Tail(ls))

\* The lines of ls at the positions from p on that the rule keeps, in order.
RECURSIVE KeptLinesFrom(_, _, _)
KeptLinesFrom(ls, c, p) ==
    IF p > Len(ls) THEN <<>>
    ELSE (IF KeptByRule(ls, c, p) THEN <<ls[p]>> ELSE <<>>) \o KeptLinesFrom(ls, c, p + 1)

\* C4 (keep rule): with a context c >= 0 the lines of the output other than
\* the headers are exactly the input lines that are not Unchanged or lie
\* within c positions of a line that is not Unchanged, each once, in input
\* order.
C4_KeepRule ==
    (pc = "done" /\ context # None) =>
        WithoutHeaders(Returned) = KeptLinesFrom(lines, context[1], 1)

\* an Unchanged line inside the radius is kept and one outside it is dropped
C4_Witness ==
    /\ pc = "done"
    /\ context # None
    /\ context[1] >= 1
    /\ \E p \in 1..Len(lines) :
          lines[p].kind = UNCHANGED_ /\ KeptByRule(lines, context[1], p)
    /\ \E p \in 1..Len(lines) : ~KeptByRule(lines, context[1], p)

\* Decimal digits of a number below 100, as the header prints it.
Dec(n) ==
    LET digit == [d \in 0..9 |-> CASE d = 0 -> "0" [] d = 1 -> "1" [] d = 2 -> "2"
                                   [] d = 3 -> "3" [] d = 4 -> "4" [] d = 5 -> "5"
                                   [] d = 6 -> "6" [] d = 7 -> "7" [] d = 8 -> "8"
                                   [] d = 9 -> "9"]
    IN  IF n < 10 THEN <<digit[n]>> ELSE <<digit[n \div 10], digit[n % 10]>>

\* The positions of the lines of the block that the header at h opens.
BlockOf(out, h) ==
    {k \in (h + 1)..Len(out) : \A m \in (h + 1)..k : ~IsHeader(out[m])}

\* The positions among ks whose line carries a left (right) line number.
WithLeft(out, ks) == {k \in ks : ~IsHeader(out[k]) /\ out[k].left_lineno # None}
WithRight(out, ks) == {k \in ks : ~IsHeader(out[k]) /\ out[k].right_lineno # None}

\* C5: every header reads "@@ -L,l +R,r @@" and a newline, L being the first
\* left line number of its block or, when the block has no left line, one
\* more than the last left line number of the earlier blocks (1 when there
\* is none), l the number of lines of the block with a left line number;
\* R and r likewise on the right.
C5_HeaderText ==
    (pc = "done" /\ context # None) =>
        \A h \in 1..Len(Returned) :
            IsHeader(Returned[h]) =>
                LET bl == WithLeft(Returned, BlockOf(Returned, h))
                    br == WithRight(Returned, BlockOf(Returned, h))
                    el == WithLeft(Returned, 1..(h - 1))
                    er == WithRight(Returned, 1..(h - 1))
                    L == IF bl # {} THEN Returned[SetMin(bl)].left_lineno[1]
                         ELSE IF el # {} THEN Returned[SetMax(el)].left_lineno[1] + 1
                         ELSE 1
                    R == IF br # {} THEN Returned[SetMin(br)].right_lineno[1]
                         ELSE IF er # {} THEN Returned[SetMax(er)].right_lineno[1] + 1
                         ELSE 1
                    text == <<"@", "@", " ", "-">> \o Dec(L) \o <<",">> \o Dec(Cardinality(bl))
                            \o <<" ", "+">> \o Dec(R) \o <<",">> \o Dec(Cardinality(br))
                            \o <<" ", "@", "@", "\n">>
                IN  /\ Returned[h].left_text = Some(text)
                    /\ Returned[h].right_text = Some(text)

\* a later block without a left line, after a block that has left lines
C5_Witness ==
    /\ pc = "done"
    /\ context # None
    /\ \E h \in 2..Len(Returned) :
          /\ IsHeader(Returned[h])
          /\ BlockOf(Returned, h) # {}
          /\ WithLeft(Returned, BlockOf(Returned, h)) = {}
          /\ WithLeft(Returned, 1..(h - 1)) # {}

\* C6: a negative context makes the call raise ValueError whatever the two
\* documents are, and no DiffResult is returned.
C6_NegativeContextRaises ==
    (pc \in {"done", "failed"} /\ context # None /\ context[1] < 0) =>
        /\ pc = "failed"
        /\ raised = "ValueError"
        /\ result = None

\* two empty documents
C6_Witness ==
    /\ pc = "failed"
    /\ raised = "ValueError"
    /\ left = <<>>
    /\ right = <<>>

\* C7: with a context >= 0 and a list without a change (empty or all
\* Unchanged) the windowing returns the empty sequence.
C7_NoChangeIsEmpty ==
    (pc = "done" /\ context # None /\ ~has_changes(lines)) => Returned = <<>>

C7_Witness ==
    /\ pc = "done"
    /\ context # None
    /\ context[1] >= 1
    /\ Len(lines) >= 2
    /\ ~has_changes(lines)

\* The replace opcodes of the two documents.
ReplaceSpans ==
    LET ops == get_opcodes(left, right)
    IN  {ops[k] : k \in {m \in 1..Len(ops) : ops[m][1] = "replace"}}

\* The lines of ls that carry a left number in i1+1..i2 or a right number in
\* j1+1..j2, in order.
RECURSIVE SpanLines(_, _, _, _, _)
SpanLines(ls, i1, i2, j1, j2) ==
    IF ls = <<>> THEN <<>>
    ELSE LET l == Head(ls)
             inl == IF l.left_lineno = None THEN FALSE
                    ELSE i1 < l.left_lineno[1] /\ l.left_lineno[1] <= i2
             inr == IF l.right_lineno = None THEN FALSE
                    ELSE j1 < l.right_lineno[1] /\ l.right_lineno[1] <= j2
         IN  (IF inl \/ inr THEN <<l>> ELSE <<>>) \o SpanLines(Tail(ls), i1, i2, j1, j2)

DeletedLine(n) == DiffLine(DELETED, Some(n), None, Some(left[n]), None, <<>>)
InsertedLine(n) == DiffLine(INSERTED, None, Some(n), None, Some(right[n]), <<>>)

\* chunk is the expansion of the pairs k..p of the span and of its leftovers.
RECURSIVE IsExpansion(_, _, _, _, _, _, _)
IsExpansion(chunk, k, p, i1, i2, j1, j2) ==
    IF k <= p
    THEN \/ /\ Len(chunk) >= 1
            /\ chunk[1].kind = EDITED
            /\ chunk[1].left_lineno = Some(i1 + k)
            /\ chunk[1].right_lineno = Some(j1 + k)
            /\ chunk[1].left_text = Some(left[i1 + k])
            /\ chunk[1].right_text = Some(right[j1 + k])
            /\ IsExpansion(Tail(chunk), k + 1, p, i1, i2, j1, j2)
         \/ /\ Len(chunk) >= 2
            /\ chunk[1] = DeletedLine(i1 + k)
            /\ chunk[2] = InsertedLine(j1 + k)
            /\ IsExpansion(Tail(Tail(chunk)), k + 1, p, i1, i2, j1, j2)
    ELSE chunk = [n \in 1..(i2 - i1 - p) |-> DeletedLine(i1 + p + n)]
                 \o [n \in 1..(j2 - j1 - p) |-> InsertedLine(j1 + p + n)]

\* C8 (replace expansion): a replace span of m left and n right lines gives
\* min(m, n) positional pairs, each one Edited line with both numbers or a
\* Deleted line directly followed by an Inserted line without segments, then
\* the remaining left lines as Deleted, then the remaining right lines as
\* Inserted, in order.
C8_ReplaceExpansion ==
    (pc = "built") =>
        \A op \in ReplaceSpans :
            IsExpansion(SpanLines(lines, op[2], op[3], op[4], op[5]), 1,
                        Min2(op[3] - op[2], op[5] - op[4]), op[2], op[3], op[4], op[5])

\* a span with an inlined pair, a rejected pair and a leftover left line
C8_Witness ==
    /\ pc = "built"
    /\ \E op \in ReplaceSpans :
          /\ op[3] - op[2] = 3
          /\ op[5] - op[4] = 2
          /\ \E k \in 1..Len(lines) : lines[k].kind = EDITED
          /\ \E k \in 1..(Len(lines) - 1) :
                lines[k].kind = DELETED /\ lines[k + 1].kind = INSERTED

\* The thresholds in force.
Thresholds == IF inline_config = None THEN InlineDiffConfig ELSE inline_config[1]

\* min_ratio is greater than the true similarity ratio of the two bodies.
MinRatioAbove(l, r) ==
    RatioBelow(ratio_matches(RStripNewlines(l), RStripNewlines(r)),
               Len(RStripNewlines(l)) + Len(RStripNewlines(r)),
               Thresholds.min_ratio)

\* C9 (threshold gating): a positional pair of a replace span whose true
\* similarity ratio is below min_ratio is emitted as a Deleted line followed
\* by an Inserted line, and not as an Edited line.
C9_ThresholdGating ==
    (pc = "built") =>
        \A op \in ReplaceSpans :
            \A k \in 1..Min2(op[3] - op[2], op[5] - op[4]) :
                MinRatioAbove(left[op[2] + k], right[op[4] + k]) =>
                    /\ \E t \in 1..(Len(lines) - 1) :
                          /\ lines[t] = DeletedLine(op[2] + k)
                          /\ lines[t + 1] = InsertedLine(op[4] + k)
                    /\ \A t \in 1..Len(lines) :
                          lines[t].kind = EDITED => lines[t].left_lineno # Some(op[2] + k)

\* a pair that passes both cheap stages and fails the last one
C9_Witness ==
    /\ pc = "built"
    /\ \E op \in ReplaceSpans :
          /\ MinRatioAbove(left[op[2] + 1], right[op[4] + 1])
          /\ ~RatioBelow(quick_ratio_matches(RStripNewlines(left[op[2] + 1]),
                                             RStripNewlines(right[op[4] + 1])),
                         Len(RStripNewlines(left[op[2] + 1]))
                         + Len(RStripNewlines(right[op[4] + 1])),
                         Thresholds.min_quick_ratio)
          /\ Thresholds.min_ratio > 0

\* The sides a line of each kind carries.
WellShaped(line) ==
    /\ line.kind \in {UNCHANGED_, EDITED, DELETED, INSERTED}
    /\ line.kind = DELETED =>
          /\ line.left_lineno # None /\ line.left_text # None
          /\ line.right_lineno = None /\ line.right_text = None
    /\ line.kind = INSERTED =>
          /\ line.right_lineno # None /\ line.right_text # None
          /\ line.left_lineno = None /\ line.left_text = None
    /\ line.kind \in {UNCHANGED_, EDITED} =>
          /\ line.left_lineno # None /\ line.left_text # None
          /\ line.right_lineno # None /\ line.right_text # None
    /\ (line.left_lineno = None) <=> (line.left_text = None)
    /\ (line.right_lineno = None) <=> (line.right_text = None)

\* C10: in an unwindowed diff a Deleted line has its left side present and
\* its right side absent, an Inserted line the reverse, an Unchanged or
\* Edited line both sides present; a line number is absent exactly when the
\* text of that side is.
C10_LineShape ==
    (pc = "done" /\ context = None) =>
        \A k \in 1..Len(Returned) : WellShaped(Returned[k])

C10_Witness ==
    /\ pc = "done"
    /\ context = None
    /\ \A kind \in {UNCHANGED_, EDITED, DELETED, INSERTED} :
          \E k \in 1..Len(Returned) : Returned[k].kind = kind

(***************************************************************************)
(* Properties of the normalizer.                                           *)
(***************************************************************************)
\* C2 (idempotence): when the text of a normalized document is normalized
\* again, the second document has the text and the digest of the first.
\* The code does not keep this: " - " becomes an indented item "    -" and
\* then "-"; "a", "--_" becomes a paragraph and a rule "---", which the
\* second pass reads as a setext heading "## a".
C2_Idempotent ==
    pc = "renormalized" =>
        /\ Text(redoc[1]) = Text(doc[1])
        /\ redoc[1].digest = doc[1].digest

(***************************************************************************)
(* Properties of the inline differ.                                        *)
(***************************************************************************)
\* The segments diff_inline returned.
Segments == inline_segments[1]

\* C11: every segment diff_inline returns of kind Inserted has an empty
\* left_text and every segment of kind Deleted has an empty right_text,
\* also where coalescing or the whitespace-bridge merge built the segment.
C11_OneSidedSegments ==
    pc = "segmented" =>
        \A k \in 1..Len(Segments) :
            /\ Segments[k].kind = INSERTED => Segments[k].left_text = <<>>
            /\ Segments[k].kind = DELETED => Segments[k].right_text = <<>>

\* A Deleted segment coalesced from several tokens, in a result that also
\* holds an Edited segment.
C11_Witness ==
    /\ pc = "segmented"
    /\ \E k \in 1..Len(Segments) :
          Segments[k].kind = DELETED /\ Len(Segments[k].left_text) >= 2
    /\ \E k \in 1..Len(Segments) : Segments[k].kind = EDITED

\* The left_text (side = "left_text") or right_text of the segments, joined.
Joined(segments, side) == Concat([k \in 1..Len(segments) |-> segments[k][side]])

\* C12: for every pair of lines, the left_text of the segments diff_inline
\* returns, concatenated in order, is the left line exactly, and the
\* right_text concatenated is the right line exactly.
C12_RoundTrip ==
    pc = "segmented" =>
        /\ Joined(Segments, "left_text") = inline_left
        /\ Joined(Segments, "right_text") = inline_right

\* line.endswith("\n")
EndsWithNewline(line) == line # <<>> /\ line[Len(line)] = "\n"

HasNewline(text) == \E k \in 1..Len(text) : text[k] = "\n"

LastSegment == Segments[Len(Segments)]

\* The pairs of lines of which at least one ends with a newline.
NewlineCase ==
    /\ pc = "segmented"
    /\ EndsWithNewline(inline_left) \/ EndsWithNewline(inline_right)

\* C13 as stated: the last segment has kind Unchanged when both lines end
\* with a newline, Deleted when only the left line does and Inserted when
\* only the right line does.
C13_LastSegmentKind ==
    NewlineCase =>
        /\ Segments # <<>>
        /\ LastSegment.kind =
               IF EndsWithNewline(inline_left) /\ EndsWithNewline(inline_right)
               THEN UNCHANGED_
               ELSE IF EndsWithNewline(inline_left) THEN DELETED ELSE INSERTED

\* A side of the last segment carries the newline of its line.
CarriesNewline(text, line) ==
    IF EndsWithNewline(line) THEN EndsWithNewline(text) ELSE ~HasNewline(text)

\* C13 amended: the last segment carries the line ending of each side; its
\* kind is Unchanged when both lines end with a newline; when only one line
\* does, the kind is Deleted (left) or Inserted (right) if the other side of
\* the segment is empty, and Edited if the whitespace-bridge merge folded
\* the newline segment into a change with text on the other side.
C13_LastSegmentCarriesNewline ==
    NewlineCase =>
        /\ Segments # <<>>
        /\ CarriesNewline(LastSegment.left_text, inline_left)
        /\ CarriesNewline(LastSegment.right_text, inline_right)
        /\ LastSegment.kind =
               IF EndsWithNewline(inline_left) /\ EndsWithNewline(inline_right)
               THEN UNCHANGED_
               ELSE IF EndsWithNewline(inline_left)
               THEN (IF LastSegment.right_text = <<>> THEN DELETED ELSE EDITED)
               ELSE (IF LastSegment.left_text = <<>> THEN INSERTED ELSE EDITED)

\* Only the right line ends with a newline and the merge made the segment
\* that holds it an Edited one.
C13_Witness ==
    /\ NewlineCase
    /\ ~EndsWithNewline(inline_left)
    /\ LastSegment.kind = EDITED
    /\ EndsWithNewline(LastSegment.right_text)

(***************************************************************************)
(* Properties of fenced code blocks.                                       *)
(***************************************************************************)
\* The length of the line if it is a run of three or more of one fence
\* character and nothing else, 0 otherwise.
FenceRun(line) ==
    IF /\ Len(line) >= 3
       /\ line[1] \in {Backtick, "~"}
       /\ \A k \in 1..Len(line) : line[k] = line[1]
    THEN Len(line) ELSE 0

\* line closes a block that opener opened: the same character, at least
\* as long a run.
Closes(line, opener) ==
    /\ FenceRun(line) >= FenceRun(opener)
    /\ line[1] = opener[1]

SourceLines == SplitLines(source)

\* The document is one fenced block: its first line opens a fence and its
\* last line is the first line after it that closes the fence.
OneFencedBlock ==
    /\ Len(SourceLines) >= 2
    /\ FenceRun(SourceLines[1]) > 0
    /\ Closes(SourceLines[Len(SourceLines)], SourceLines[1])
    /\ \A k \in 2..(Len(SourceLines) - 1) : ~Closes(SourceLines[k], SourceLines[1])

Body == Slice(SourceLines, 1, Len(SourceLines) - 1)

\* The block with its markers rewritten and the given body.
FencedText(body) ==
    Concat([k \in 1..Len(body) + 2 |->
        (IF k = 1 \/ k = Len(body) + 2 THEN Repeat(Backtick, 3) ELSE body[k - 1])
            \o <<"\n">>])

\* The body lines need no trimming: none is blank or ends with a space.
PlainBody == \A k \in 1..Len(Body) : Body[k] # <<>> /\ RStrip(Body[k]) = Body[k]

\* C14: a fenced code block opened by a run of k fence characters is closed
\* only by a later fence line of the same character whose run is at least
\* k long: a document whose last line is the first such line normalizes to
\* one block holding every line in between, shorter fences included.
C14_FenceClosingRule ==
    (pc = "normalized" /\ OneFencedBlock /\ PlainBody) =>
        Text(doc[1]) = FencedText(Body)

\* No body line is a fence of the opening character, of any length.
NoInnerFence ==
    \A k \in 1..Len(Body) :
        FenceRun(Body[k]) = 0 \/ Body[k][1] # SourceLines[1][1]

\* C15: every line between the opening fence and its closing fence is in
\* the normalized text, in the same order and count, equal to the input
\* line with its trailing whitespace removed.
C15_FenceBodyVerbatim ==
    (pc = "normalized" /\ OneFencedBlock /\ NoInnerFence) =>
        Text(doc[1]) = FencedText([k \in 1..Len(Body) |-> RStrip(Body[k])])

(***************************************************************************)
(* Properties of the normalized text.                                      *)
(***************************************************************************)
\* The lines of the normalized document, each with its line ending.
DocLines == doc[1].lines

\* The text ends with a newline and not with two.
EndsWithOneNewline(text) ==
    /\ EndsWithNewline(text)
    /\ Len(text) >= 2 => text[Len(text) - 1] # "\n"

EmptyLine == <<"\n">>

ScanAgrees ==
    pc = "scanned" => Cleaned(frames[1]) = _normalize_blocks(source)

\* The number of ">" in a line, and in a list of lines
Markers(line) == Cardinality({k \in 1..Len(line) : line[k] = ">"})

RECURSIVE TotalMarkers(_)
TotalMarkers(ls) ==
    IF ls = <<>> THEN 0 ELSE Markers(Head(ls)) + TotalMarkers(Tail(ls))

\* The number of ">" among the markers a line starts with
RECURSIVE Nesting(_)
Nesting(line) ==
    IF line = <<>> THEN 0
    ELSE IF Head(line) = ">" THEN 1 + Nesting(Tail(line))
    ELSE IF Head(line) \in {" ", "\t"} THEN Nesting(Tail(line))
    ELSE 0

MaxNesting(ls) == SetMax({0} \cup {Nesting(ls[k]) : k \in 1..Len(ls)})

\* The blockquote lines the innermost call is about to hand to a recursive call
QuotedLines == RawLines(Top.ls, Top.i)

\* The step that the state allows leaves a frame further on than it was: a
\* turn of the loop and a return consume at least one line.
StepMoves ==
    Running =>
        IF AtEnd(Top)
        THEN Len(frames) >= 2 =>
                Returned_(frames[Len(frames) - 1], Top).i > frames[Len(frames) - 1].i
        ELSE BranchAt(Top.ls, Top.i) # "blockquote" =>
                ScanLineAt(Top.ls, Top.i, Top.output, Top.stats).i > Top.i

\* A step of the scan: a turn of the loop or a return moves its frame on by
\* one line at least; a recursive call is given the blockquote lines with one
\* ">" fewer in each.
ScanProgress ==
    /\ (Len(frames') = Len(frames) /\ frames' # frames) =>
           frames'[Len(frames)].i > Top.i
    /\ Len(frames') < Len(frames) =>
           frames'[Len(frames')].i > frames[Len(frames')].i
    /\ Len(frames') > Len(frames) =>
           /\ QuotedLines # <<>>
           /\ \A k \in 1..Len(QuotedLines) :
                  Markers(_strip_one_blockquote_marker(QuotedLines[k]))
                      = Markers(QuotedLines[k]) - 1
           /\ TotalMarkers(frames'[Len(frames')].ls)
                  = TotalMarkers(QuotedLines) - Len(QuotedLines)

\* The calls in progress are no more than the deepest marker nesting of a
\* line of the input, plus the outermost call.
DepthBounded == Len(frames) <= 1 + MaxNesting(SplitLines(source))

\* C17: _normalize_blocks terminates on every input: each turn of the
\* block-scanning loop consumes at least one line, each recursive blockquote
\* normalization runs on inner text with exactly one ">" stripped from every
\* line, the recursion is no deeper than the marker nesting of the input,
\* and the outermost call reaches the end of its loop.
C17_Terminates ==
    /\ []StepMoves
    /\ [][ScanProgress]_vars
    /\ []DepthBounded
    /\ <>(pc = "scanned")

\* A call of _normalize_blocks two blockquote levels down has run to its end.
C17_Witness ==
    /\ pc = "scanning"
    /\ Len(frames) = 3
    /\ AtEnd(Top)
    /\ Top.output # <<>>

(***************************************************************************)
(* Properties of the construction of the model classes.                    *)
(***************************************************************************)
\* The three thresholds are within [0, 1], in hundredths.
ThresholdsInRange(cfg) ==
    /\ cfg.min_real_quick_ratio \in 0..100
    /\ cfg.min_quick_ratio \in 0..100
    /\ cfg.min_ratio \in 0..100

\* C19: an InlineDiffConfig whose thresholds are not all within [0, 1] is
\* rejected with an error instead of being used: once such a configuration
\* was handed to the gate of the line differ, an error is raised and no
\* verdict was computed from it.
C19_ConfigValidated ==
    (pc = "gated" /\ inline_config # None /\ ~ThresholdsInRange(inline_config[1])) =>
        /\ raised # ""
        /\ inline_eligible = None

\* C20: a DiffLine cannot be constructed with a line number present and the
\* text absent on the same side, or the text present and the line number
\* absent: in every constructed DiffLine the line number of a side is absent
\* exactly when the text of that side is.
C20_LinenoCoincidesWithText ==
    pc = "constructed" =>
        /\ (lines[1].left_lineno = None) <=> (lines[1].left_text = None)
        /\ (lines[1].right_lineno = None) <=> (lines[1].right_text = None)

(***************************************************************************)
(* Properties of the metadata.                                             *)
(***************************************************************************)
\* C21: for text input x, normalize(x).metadata.original_length is the
\* number of characters of x as supplied, and normalized_length is the
\* number of characters of the normalized text.
C21_MetadataLengths ==
    pc = "normalized" =>
        /\ doc[1].metadata.original_length = Len(source)
        /\ doc[1].metadata.normalized_length = Len(Text(doc[1]))

(***************************************************************************)
(* Properties of the whitespace-bridge merge.                              *)
(***************************************************************************)
\* Position k of the segments is an Unchanged segment of whitespace without
\* a newline, with a change-kind segment right before and right after it.
IsBridge(segments, k) ==
    /\ 1 < k
    /\ k < Len(segments)
    /\ segments[k].kind = UNCHANGED_
    /\ _is_mergeable_whitespace(segments[k])
    /\ _is_change_segment(segments[k - 1])
    /\ _is_change_segment(segments[k + 1])

Bridges(segments) == {k \in 1..Len(segments) : IsBridge(segments, k)}

\* The segments of the two lines before the merge.
Unmerged == CoalescedSegments(inline_left, inline_right)

\* C22: the sequence diff_inline returns holds no Unchanged segment of
\* non-newline whitespace between two change-kind segments; every such
\* bridge of the sequence before the merge is folded with its two
\* neighbours into one segment, a chain of them into one segment as well,
\* and the texts of each side concatenate to what they were.
C22_BridgesFolded ==
    pc = "segmented" =>
        /\ Bridges(Segments) = {}
        /\ Len(Segments) = Len(Unmerged) - 2 * Cardinality(Bridges(Unmerged))
        /\ Joined(Segments, "left_text") = Joined(Unmerged, "left_text")
        /\ Joined(Segments, "right_text") = Joined(Unmerged, "right_text")

\* A chain change, space, change, space, change folded into one segment.
C22_Witness ==
    /\ pc = "segmented"
    /\ Len(Unmerged) = 5
    /\ Cardinality(Bridges(Unmerged)) = 2
    /\ Len(Segments) = 1

(***************************************************************************)
(* Properties of the tokenizer.                                            *)
(***************************************************************************)
\* The two line bodies that diff_inline tokenizes.
LeftBody == _strip_trailing_newline(inline_left)[1]

RightBody == _strip_trailing_newline(inline_right)[1]

IsSpaceRun(token) == token # <<>> /\ \A k \in 1..Len(token) : IsSpace(token[k])

IsWordRun(token) == token # <<>> /\ \A k \in 1..Len(token) : IsWord(token[k])

IsSingleOther(token) == Len(token) = 1 /\ ~IsSpace(token[1]) /\ ~IsWord(token[1])

\* The tokens are a partition of the body into maximal runs of whitespace,
\* maximal runs of word characters and single other characters.
PartitionsBody(tokens, body) ==
    /\ Concat(tokens) = body
    /\ \A k \in 1..Len(tokens) :
           IsSpaceRun(tokens[k]) \/ IsWordRun(tokens[k]) \/ IsSingleOther(tokens[k])
    /\ \A k \in 1..(Len(tokens) - 1) :
           /\ ~(IsSpaceRun(tokens[k]) /\ IsSpaceRun(tokens[k + 1]))
           /\ ~(IsWordRun(tokens[k]) /\ IsWordRun(tokens[k + 1]))

\* C23: for every line body the tokens _tokenize returns concatenate to the
\* body, and each is a maximal run of whitespace, a maximal run of word
\* characters or a single character that is neither.
C23_TokensPartition ==
    pc = "segmented" =>
        /\ PartitionsBody(_tokenize(LeftBody), LeftBody)
        /\ PartitionsBody(_tokenize(RightBody), RightBody)

(***************************************************************************)
(* Properties of the eligibility gate with the default thresholds.         *)
(***************************************************************************)
\* The true similarity ratio of the two bodies is at least t hundredths.
TrueRatioAtLeast(t) ==
    ~RatioBelow(ratio_matches(LeftBody, RightBody), Len(LeftBody) + Len(RightBody), t)

\* The two estimates are upper bounds on the number of matched characters.
EstimatesAreUpperBounds ==
    /\ ratio_matches(LeftBody, RightBody) <= quick_ratio_matches(LeftBody, RightBody)
    /\ ratio_matches(LeftBody, RightBody) <= real_quick_ratio_matches(LeftBody, RightBody)

\* C24: with the default thresholds the gate accepts a pair iff both bodies
\* are empty or their true similarity ratio is at least 0.35; the two
\* estimates of the early stages are upper bounds on the true ratio.
C24_DefaultGate ==
    (pc = "gated" /\ inline_config = None) =>
        /\ inline_eligible[1] <=>
               \/ LeftBody = <<>> /\ RightBody = <<>>
               \/ TrueRatioAtLeast(InlineDiffConfig.min_ratio)
        /\ EstimatesAreUpperBounds

\* an accepted pair of non-empty bodies whose character-frequency estimate is
\* above its true ratio
C24_Witness ==
    /\ pc = "gated"
    /\ inline_config = None
    /\ inline_eligible = Some(TRUE)
    /\ LeftBody # <<>>
    /\ RightBody # <<>>
    /\ ratio_matches(LeftBody, RightBody) < quick_ratio_matches(LeftBody, RightBody)

(***************************************************************************)
(* Properties of the edit script as a whole.                               *)
(***************************************************************************)
\* The left and right texts of the lines that carry them, in order.
RECURSIVE LeftTexts(_)
LeftTexts(ls) ==
    IF ls = <<>> THEN <<>> ELSE Head(ls).left_text \o LeftTexts(Tail(ls))

RECURSIVE RightTexts(_)
RightTexts(ls) ==
    IF ls = <<>> THEN <<>> ELSE Head(ls).right_text \o RightTexts(Tail(ls))

\* A line carries a text on a side exactly when it carries a number there.
NumbersGoWithTexts(ls) ==
    \A k \in 1..Len(ls) :
        /\ (ls[k].left_lineno = None) <=> (ls[k].left_text = None)
        /\ (ls[k].right_lineno = None) <=> (ls[k].right_text = None)

\* C25 (edit-script coverage): without a context the left line numbers of
\* the returned lines are 1..len(left.lines) in increasing order, each line
\* carrying the text of the left line of its number, and likewise on the
\* right, so the texts of each side concatenate to the document's text.
C25_EditScriptCoverage ==
    (pc = "done" /\ context = None) =>
        /\ LeftNumbers(Returned) = [k \in 1..Len(left) |-> k]
        /\ RightNumbers(Returned) = [k \in 1..Len(right) |-> k]
        /\ NumbersGoWithTexts(Returned)
        /\ LeftTexts(Returned) = left
        /\ RightTexts(Returned) = right
        /\ Concat(LeftTexts(Returned)) = Concat(left)
        /\ Concat(RightTexts(Returned)) = Concat(right)

\* a diff with an unchanged line, a replaced pair and a left-over deletion
C25_Witness ==
    /\ pc = "done"
    /\ context = None
    /\ Len(left) = 3
    /\ Len(right) = 2
    /\ \E k \in 1..Len(Returned) : Returned[k].kind = UNCHANGED_
    /\ \E k \in 1..Len(Returned) : Returned[k].kind = DELETED
    /\ \E k \in 1..Len(Returned) : Returned[k].kind \in {EDITED, INSERTED}

\* C26: whatever the context, absent or >= 0, the returned diff has changes
\* iff the line sequences of the two documents differ.
C26_HasChangesIffDifferent ==
    (pc = "done") => (has_changes(Returned) <=> left # right)

\* a windowed diff of two different documents that keeps an unchanged line
C26_Witness ==
    /\ pc = "done"
    /\ context = Some(1)
    /\ left # right
    /\ has_changes(Returned)
    /\ \E k \in 1..Len(Returned) : Returned[k].kind = UNCHANGED_

\* C27: every Edited line of a returned diff carries segments, at least one
\* of them of a kind other than Unchanged.
C27_EditedLineShowsChange ==
    (pc = "done") =>
        \A k \in 1..Len(Returned) :
            Returned[k].kind = EDITED =>
                \E n \in 1..Len(Returned[k].segments) :
                    Returned[k].segments[n].kind # UNCHANGED_

\* C28: no left line of a replace span equals a right line of the span, so
\* no Edited line and no Deleted line directly followed by an Inserted line
\* (a pair the gate rejected) has equal left and right texts.
C28_ReplaceSpanHasNoCommonLine ==
    (pc = "built") =>
        /\ \A op \in ReplaceSpans :
               \A i \in (op[2] + 1)..op[3] : \A j \in (op[4] + 1)..op[5] :
                   left[i] # right[j]
        /\ \A k \in 1..Len(lines) :
               lines[k].kind = EDITED => lines[k].left_text # lines[k].right_text
        /\ \A k \in 1..(Len(lines) - 1) :
               (lines[k].kind = DELETED /\ lines[k + 1].kind = INSERTED) =>
                   lines[k].left_text # lines[k + 1].right_text

\* a span of two lines a side that gives an Edited line and a rejected pair
C28_Witness ==
    /\ pc = "built"
    /\ \E op \in ReplaceSpans : op[3] - op[2] = 2 /\ op[5] - op[4] = 2
    /\ \E k \in 1..Len(lines) : lines[k].kind = EDITED
    /\ \E k \in 1..(Len(lines) - 1) :
          lines[k].kind = DELETED /\ lines[k + 1].kind = INSERTED

\* C29: in the sequence diff_inline returns no two adjacent segments have
\* the same kind and no segment has both texts empty.
C29_NoAdjacentSameKind ==
    pc = "segmented" =>
        /\ \A k \in 1..(Len(Segments) - 1) : Segments[k].kind # Segments[k + 1].kind
        /\ \A k \in 1..Len(Segments) :
               Segments[k].left_text # <<>> \/ Segments[k].right_text # <<>>

\* a whitespace bridge was folded and a line-ending segment of another kind
\* follows the combined segment
C29_Witness ==
    /\ pc = "segmented"
    /\ Bridges(Unmerged) # {}
    /\ Len(Segments) = 2
    /\ Segments[1].kind = EDITED
    /\ Segments[2].kind \in {INSERTED, DELETED}

(***************************************************************************)
(* Properties of the hunk ranges, read back from the header texts.         *)
(***************************************************************************)
DigitValue(c) == CHOOSE d \in 0..9 : IntStr(d) = <<c>>

\* The number written in text from position p on and the position after it.
RECURSIVE NumberAt(_, _, _)
NumberAt(text, p, acc) ==
    IF p <= Len(text) /\ text[p] \in AsciiDigits
    THEN NumberAt(text, p + 1, 10 * acc + DigitValue(text[p]))
    ELSE <<acc, p>>

\* L, l, R and r of the header text "@@ -L,l +R,r @@".
HunkRange(text) ==
    LET L == NumberAt(text, 5, 0)
        l == NumberAt(text, L[2] + 1, 0)
        R == NumberAt(text, l[2] + 2, 0)
        r == NumberAt(text, R[2] + 1, 0)
    IN  [L |-> L[1], l |-> l[1], R |-> R[1], r |-> r[1]]

HeaderPositions == {h \in 1..Len(Returned) : IsHeader(Returned[h])}

RangeOf(h) == HunkRange(Returned[h].left_text[1])

\* The lines at the positions ks carry the numbers from, from + 1, ... in
\* order, number(k) being the number of the line at k.
Consecutive(ks, from, number(_)) ==
    \A k \in ks : number(k) = from + Cardinality({m \in ks : m < k})

\* C30: in a windowed diff the lines of a hunk "@@ -L,l +R,r @@" that carry
\* a left number carry L, L+1, ..., L+l-1 in order when l > 0, likewise R
\* and r on the right; over successive hunks the left ranges and the right
\* ranges are disjoint and L and R never decrease.
C30_HunkRangesExactAndOrdered ==
    (pc = "done" /\ context # None) =>
        /\ \A h \in HeaderPositions :
               LET bl == WithLeft(Returned, BlockOf(Returned, h))
                   br == WithRight(Returned, BlockOf(Returned, h))
                   LeftNumber(k) == Returned[k].left_lineno[1]
                   RightNumber(k) == Returned[k].right_lineno[1]
               IN  /\ RangeOf(h).l > 0 =>
                          /\ Cardinality(bl) = RangeOf(h).l
                          /\ Consecutive(bl, RangeOf(h).L, LeftNumber)
                   /\ RangeOf(h).r > 0 =>
                          /\ Cardinality(br) = RangeOf(h).r
                          /\ Consecutive(br, RangeOf(h).R, RightNumber)
        /\ \A g, h \in HeaderPositions :
               g < h =>
                   /\ RangeOf(g).L + RangeOf(g).l <= RangeOf(h).L
                   /\ RangeOf(g).R + RangeOf(g).r <= RangeOf(h).R

\* two hunks with left and right lines, an unchanged line skipped between
\* them
C30_Witness ==
    /\ pc = "done"
    /\ context # None
    /\ Cardinality(HeaderPositions) = 2
    /\ \E g, h \in HeaderPositions :
          /\ g < h
          /\ RangeOf(g).l > 0
          /\ RangeOf(g).r > 0
          /\ RangeOf(h).l > 0
          /\ RangeOf(h).L > RangeOf(g).L + RangeOf(g).l

====
